---- MODULE Spec2Model ----
(***************************************************************************)
(* FunSpeech serving core: the ASR WebSocket session                        *)
(* (app/services/websocket_asr.py), the TTS WebSocket session               *)
(* (app/services/websocket_tts.py) and the multi-GPU engine pool            *)
(* (app/services/tts/engine.py, app/services/asr/engine.py), the async TTS  *)
(* subsystem (app/api/v1/async_tts.py, app/core/database.py) and the        *)
(* generator bridge of the inference executor (app/core/executor.py).       *)
(*                                                                          *)
(* Each subsystem has its own specification over the shared variable tuple: *)
(*   SpecASR      one ASR WebSocket connection                              *)
(*   SpecASRAudio the sessions of SpecASR whose client follows the protocol *)
(*   SpecASRRates SpecASR and clients asking for an unsupported sample rate *)
(*   SpecASRFrames SpecASR and clients sending frames of more than 600 ms   *)
(*   SpecTTS      one TTS WebSocket connection                              *)
(*   SpecTTSAuth  SpecTTS from the check of the connection's token          *)
(*   SpecPool     the engine pool used by its holders (streams, one-shots)  *)
(*   SpecPoolApi  the engine pool under arbitrary select/release calls      *)
(*   FairSpecPool SpecPool with weak fairness of the holders' steps         *)
(*   SpecTTSPool  a TTS WebSocket session on the engine pool                *)
(*   SpecAsync    the async TTS task store, endpoints and workers           *)
(*   SpecReap     SpecAsync over days, in servers of several time zones     *)
(*   FairSpecAsync SpecAsync with weak fairness of the workers' steps       *)
(*   SpecGen      one engine stream bridged by run_sync_generator           *)
(*   SpecHttp     HTTP requests that end in an error response               *)
(*   SpecSingletons concurrent calls of the getters of the global singletons *)
(***************************************************************************)
EXTENDS Integers, Sequences, FiniteSets, TLC

VARIABLES
    \* ---- configuration (settings) ----
    cfg,
    \* ---- the opening of a WebSocket connection ----
    ws_handshake,         \* settings.APPTOKEN is set, and the X-NLS-Token header
                          \*   of the connection ("" = absent or empty)
    \* ---- HTTP endpoints ----
    http_out,             \* history: the error responses returned so far
    \* ---- the lazy global singletons and the callers of their getters ----
    singleton,            \* per getter: the global (instance, 0 = None), the
                          \*   holder of its lock (0 = free) and, history, the
                          \*   number of instances constructed
    getter_call,          \* per caller: position in the getter it calls, and,
                          \*   history, the instance each getter returned to it
    getter_calls,         \* history: calls of getters made so far
    \* ---- ASR session: locals of _process_websocket_connection ----
    asr_pc,               \* "recv" | "chunks" | "closed"
    asr_ws,               \* "CONNECTED" | "DISCONNECTED" (client side of the socket)
    asr_state,            \* state
    asr_task_id,          \* task_id
    transcription_params, \* None or the parsed parameters
    audio_cache,
    punc_cache,
    sentence_index,
    audio_time,
    sentence_active,
    sentence_start_time,
    last_sentence_text,
    sentence_texts,
    sentence_texts_raw,
    empty_result_count,
    audio_buffer,         \* sequence of sample runs <<first, last>>
    selected_chunk_size,
    asr_out,              \* history: messages sent on the socket, in order
    asr_shown,            \* history: results of the TranscriptionResultChanged
                          \*   messages of the sentence begun last
    asr_final,            \* history: result of the SentenceEnd sent last
    asr_in,               \* history: number of frames received
    asr_audio_in,         \* history: number of binary frames received
    asr_errs,             \* history: number of frames answered with TaskFailed
    asr_next_sample,      \* history: arrival number of the next sample
    asr_detached,         \* history: the samples of the chunks detached so far
    filter_rms,           \* history: filter_metrics['rms_energy'] of the chunk
                          \*   detached last, 0 when it was not computed
    silence_frame,        \* is_silence_frame of the chunk loop, as assigned last
    \* ---- TTS session: locals of _process_websocket_connection ----
    tts_pc,               \* "auth" (before the check of the token) | "recv" |
                          \*   "stream" (inside _run_synthesis) | "closed"
    tts_ws,               \* "CONNECTED" | "DISCONNECTED" (client side of the socket)
    tts_state,            \* state
    tts_task_id,          \* task_id
    synthesis_params,     \* "None" or "params"
    audio_sent,           \* audio_sent of the running _run_synthesis
    tts_out,              \* history: frames sent on the socket, in order
    tts_in,               \* history: number of frames received
    tts_errs,             \* history: number of TaskFailed answers
    tts_chunks,           \* history: chunks yielded to the running _run_synthesis
    tts_runs,             \* history: RunSynthesis messages that entered _run_synthesis
    tts_cut,              \* history: runs that ended by an exception or a disconnect
    \* ---- engine pool: MultiGPUTTSEngine / MultiGPUASREngine ----
    engine_active_count,  \* _engine_active_count
    h_pc,                 \* per holder: position in its code
    h_kind,               \* per holder: "stream" | "oneshot"
    engine_index,         \* per holder: engine_index / idx, -1 = None
    h_yields,             \* per holder, history: chunks yielded by the stream
    h_releases,           \* per holder, history: _release_engine calls of the request
    h_exit,               \* per holder, history: the way the request ended
    h_requests,           \* history: requests started on the pool
    pool_calls,           \* history: calls made on the pool by SpecPoolApi
    pool_last,            \* history: the last call made by SpecPoolApi
    \* ---- a TTS session on the engine pool ----
    sess_pc,              \* "recv" | "stream" | "closed"
    sess_engine,          \* engine_index of the running stream, -1 = None
    sess_used,            \* history: the replicas selected for the session's runs
    sess_releases,        \* history: _release_engine calls made for the session
    \* ---- async TTS: the task store and the background workers ----
    task_rows,            \* table async_tts_tasks: per task the row, NoRow = absent
    task_count,           \* number of rows created so far (order of created_at)
    w_pc,                 \* per process: position of its _process_async_tasks
                          \*   "off" | "poll" | "task" | "notify" | "except"
    pending_tasks,        \* per process: the rest of pending_tasks (task ids)
    w_exc,                \* per process: str(e) of the exception caught last
    posts,                \* history, per task: callback POSTs made
    callbacks,            \* history, per task: body of the success callback
                          \*   POSTed last, NoBody before
    clock,                \* the time (UTC), in hours since the server started
    utc_offset,           \* the server's time zone: local time - UTC, in hours
    worker_threads,       \* history, per process: worker threads started
    reaped,               \* history, per task: the status and the age in hours
                          \*   of the row when cleanup_old_tasks deleted it
    \* ---- run_sync_generator: one engine stream and its consumer ----
    future,               \* state of the producer's future in the executor
    queue,                \* the asyncio.Queue between producer and consumer
    gen_made,             \* history: items the engine generator has yielded
    gen_raised,           \* history: the engine generator raised
    gen_got,              \* history: items run_sync_generator yielded to its consumer
    gen_cons,             \* consumer: "waiting" | "done" | "raised" | "closed"
    gen_ws,               \* "CONNECTED" | "DISCONNECTED" (client side of the socket)
    gen_sent,             \* history: audio frames sent to the client
    gen_closed_at         \* history: gen_made when the consumer left the stream
                          \*   early, -1 before

asrVars == <<asr_pc, asr_ws, asr_state, asr_task_id, transcription_params,
             audio_cache, punc_cache, sentence_index, audio_time,
             sentence_active, sentence_start_time, last_sentence_text,
             sentence_texts, sentence_texts_raw, empty_result_count,
             audio_buffer, selected_chunk_size, asr_out, asr_shown, asr_final,
             asr_in, asr_audio_in, asr_errs, asr_next_sample, asr_detached,
             filter_rms, silence_frame>>

ttsVars == <<tts_pc, tts_ws, tts_state, tts_task_id, synthesis_params,
             audio_sent, tts_out, tts_in, tts_errs, tts_chunks, tts_runs, tts_cut>>

holderVars == <<h_pc, h_kind, engine_index, h_yields, h_releases, h_exit,
                h_requests>>
apiVars == <<pool_calls, pool_last>>
poolVars == <<engine_active_count, holderVars, apiVars>>

sessVars == <<sess_pc, sess_engine, sess_used, sess_releases>>

workerVars == <<w_pc, pending_tasks, w_exc>>
timeVars == <<clock, utc_offset>>
asyncVars == <<task_rows, task_count, workerVars, posts, callbacks, timeVars,
               worker_threads, reaped>>

genVars == <<future, queue, gen_made, gen_raised, gen_got, gen_cons, gen_ws,
             gen_sent, gen_closed_at>>

\* what no handler writes (the handshake), and the subsystems added last
singVars == <<singleton, getter_call, getter_calls>>
envVars == <<ws_handshake, http_out, singVars>>

nonAsrVars == <<ttsVars, poolVars, sessVars, asyncVars, genVars, envVars>>
nonTtsVars == <<cfg, asrVars, poolVars, sessVars, asyncVars, genVars, envVars>>
nonPoolVars == <<cfg, asrVars, ttsVars, sessVars, asyncVars, genVars, envVars>>
nonAsyncVars == <<cfg, asrVars, ttsVars, poolVars, sessVars, genVars, envVars>>
nonGenVars == <<cfg, asrVars, ttsVars, poolVars, sessVars, asyncVars, envVars>>

vars == <<cfg, asrVars, ttsVars, poolVars, sessVars, asyncVars, genVars, envVars>>

\* transcription_params = None
None == [sample_rate |-> 0, enable_intermediate_result |-> FALSE,
         enable_punctuation_prediction |-> FALSE,
         enable_inverse_text_normalization |-> FALSE, max_sentence_silence |-> 0]

(***************************************************************************)
(* Bounds of the model.                                                     *)
(***************************************************************************)
MaxFrames == 4
MaxAudioFrames == 2
MaxErrors == 1
MaxChunks == 2
NumEngines == 2
MaxHolders == 2
MaxRequests == 2
MaxYields == 1
MaxCalls == 6
MaxRuns == 2
MaxTasks == 2
NumProcesses == 2
MaxItems == 3
MaxClock == 328
MaxHttpRequests == 2
NumCallers == 2
MaxGets == 3

(***************************************************************************)
(* Sequences of samples as runs of consecutive arrival numbers.             *)
(***************************************************************************)
RunLen(r) == r[2] - r[1] + 1

RECURSIVE SamplesLen(_)
SamplesLen(s) == IF s = <<>> THEN 0 ELSE RunLen(Head(s)) + SamplesLen(Tail(s))

\* np.concatenate([a, b]) with adjacent runs merged
Concat(a, b) ==
    IF a = <<>> THEN b
    ELSE IF b = <<>> THEN a
    ELSE IF a[Len(a)][2] + 1 = b[1][1]
         THEN SubSeq(a, 1, Len(a) - 1) \o <<<<a[Len(a)][1], b[1][2]>>>> \o Tail(b)
         ELSE a \o b

\* s[:n]
RECURSIVE TakeSamples(_, _)
TakeSamples(s, n) ==
    IF n = 0 \/ s = <<>> THEN <<>>
    ELSE IF RunLen(Head(s)) <= n
         THEN <<Head(s)>> \o TakeSamples(Tail(s), n - RunLen(Head(s)))
         ELSE <<<<Head(s)[1], Head(s)[1] + n - 1>>>>

\* s[n:]
RECURSIVE DropSamples(_, _)
DropSamples(s, n) ==
    IF n = 0 \/ s = <<>> THEN s
    ELSE IF RunLen(Head(s)) <= n
         THEN DropSamples(Tail(s), n - RunLen(Head(s)))
         ELSE <<<<Head(s)[1] + n, Head(s)[2]>>>> \o Tail(s)

(***************************************************************************)
(* Texts are sequences of tokens; "".join(list) is their concatenation.     *)
(***************************************************************************)
RECURSIVE Join(_)
Join(l) == IF l = <<>> THEN <<>> ELSE Head(l) \o Join(Tail(l))

\* list.append(x) only when x differs from the tail of the list
AppendDedup(l, x) == IF l = <<>> \/ x # l[Len(l)] THEN Append(l, x) ELSE l

(***************************************************************************)
(* ASR WebSocket session: inputs.                                           *)
(***************************************************************************)
SPEECH_TRANSCRIBER == "SpeechTranscriber"
START_TRANSCRIPTION == "StartTranscription"
STOP_TRANSCRIPTION == "StopTranscription"

\* task_id given to the connection by the endpoint
ConnTaskId == "c0"
\* header.task_id values a client sends ("" = absent)
MsgTaskIds == {"", "t1"}

\* StartTranscription payloads a client sends
StartPayloads ==
    { [sample_rate |-> 16000, enable_intermediate_result |-> TRUE,
       enable_punctuation_prediction |-> TRUE,
       enable_inverse_text_normalization |-> TRUE, max_sentence_silence |-> 800],
      [sample_rate |-> 8000, enable_intermediate_result |-> FALSE,
       enable_punctuation_prediction |-> FALSE,
       enable_inverse_text_normalization |-> FALSE, max_sentence_silence |-> 1500] }

\* the sample rates of the protocol (supported_rates), and StartTranscription
\* payloads with another one
supported_rates == {8000, 16000}
OtherRatePayloads ==
    { [sample_rate |-> 44100, enable_intermediate_result |-> FALSE,
       enable_punctuation_prediction |-> FALSE,
       enable_inverse_text_normalization |-> FALSE, max_sentence_silence |-> 1500] }

\* binary frames: number of samples carried; ok = FALSE when the bytes cannot
\* be converted (np.frombuffer on an odd number of bytes, unsupported format)
AudioFrames ==
    { [samples |-> 2000, ok |-> TRUE], [samples |-> 7680, ok |-> TRUE],
      [samples |-> 9600, ok |-> TRUE], [samples |-> 2000, ok |-> FALSE] }

\* energy of a detached chunk, in thousandths of full scale
ChunkAudio ==
    { [rms |-> 1, amp |-> 1], [rms |-> 7, amp |-> 9], [rms |-> 12, amp |-> 20] }

\* what the realtime model returns for a chunk: its text, and whether the
\* realtime punctuation model (when it is used) adds a mark; or it raises
RawResults == { <<>>, <<"a">>, <<"b">> }
ModelResults ==
    { [raises |-> TRUE, raw |-> <<>>, punc |-> FALSE] } \cup
    { [raises |-> FALSE, raw |-> r, punc |-> c] : r \in RawResults, c \in BOOLEAN }
\* what the is_final=True call returns
FlushResults ==
    { [raises |-> TRUE, raw |-> <<>>], [raises |-> FALSE, raw |-> <<>>],
      [raises |-> FALSE, raw |-> <<"b">>] }

Configs ==
    { [ASR_ENABLE_NEARFIELD_FILTER |-> TRUE, ASR_ENABLE_REALTIME_PUNC |-> FALSE],
      [ASR_ENABLE_NEARFIELD_FILTER |-> FALSE, ASR_ENABLE_REALTIME_PUNC |-> TRUE] }

\* settings.ASR_NEARFIELD_RMS_THRESHOLD, in thousandths (0.01)
ASR_NEARFIELD_RMS_THRESHOLD == 10
\* _is_silence_frame: threshold * 2 with threshold = 0.001, in thousandths
SilenceAmplitude == 2
\* standard_chunk_sizes
ChunkSmall == 3840
ChunkLarge == 9600

(***************************************************************************)
(* ASR WebSocket session: helpers.                                          *)
(***************************************************************************)
\* a message of the history: its name, payload.index (0 when it has none) and,
\* for TaskFailed, what the status_text reports
Msg(name, index, cause) == [name |-> name, index |-> index, cause |-> cause]

\* status_text of a TaskFailed: a failure of audio processing, an exception
\* of the message handler, or a protocol / validation error
Cause(status_text) ==
    IF status_text = "Audio processing failed" THEN "processing"
    ELSE IF status_text = "handler exception" THEN "exception"
    ELSE "protocol"

\* the rms_energy of filter_metrics: computed only when the filter is enabled
calculate_rms_energy(a, enable_filter) == IF enable_filter THEN a.rms ELSE 0

is_nearfield_voice_NoGate(a, active, enable_filter) == TRUE

\* is_nearfield_voice: rms >= threshold, the threshold scaled by 0.6 while a
\* sentence is active
is_nearfield_voice(a, active, enable_filter) ==
    IF ~enable_filter THEN TRUE
    ELSE IF active THEN a.rms * 10 >= ASR_NEARFIELD_RMS_THRESHOLD * 6
         ELSE a.rms >= ASR_NEARFIELD_RMS_THRESHOLD

\* int(len(audio_array) / sample_rate * 1000)
chunk_duration_ms(n, sample_rate) == (n * 1000) \div sample_rate

\* _is_silence_frame, applied only to chunks of at least 400 ms
is_silence_frame(a, dur) == dur >= 400 /\ a.amp < SilenceAmplitude

Max(a, b) == IF a >= b THEN a ELSE b

max_empty_count(params) == Max(3, (params.max_sentence_silence * 2) \div 600)

\* the largest standard chunk size the buffer can serve, or None
SelectChunkSize(len) ==
    IF len >= ChunkLarge THEN ChunkLarge
    ELSE IF len >= ChunkSmall THEN ChunkSmall
    ELSE 0

\* _apply_final_punctuation_to_sentence: the offline model may add a full stop
apply_final_punctuation(text, stop) ==
    IF text = <<>> THEN text
    ELSE IF stop THEN Append(text, ".") ELSE text

\* apply_itn_to_text: spoken-form tokens become written-form tokens
ITNToken(t) == IF t = "b" THEN "8" ELSE t
apply_itn_to_text(text) == [i \in 1..Len(text) |-> ITNToken(text[i])]

\* sentence_index += 1 when a sentence ends (chunk loop and StopTranscription)
NextSentenceIndex_Stuck(i) == i
NextSentenceIndex(i) == i + 1

\* the index sent with SentenceBegin and TranscriptionResultChanged
SentenceBeginIndex_Current(i) == i
SentenceBeginIndex(i) == i + 1

\* StopTranscription ends the open sentence: "if sentence_active and
\* sentence_texts_raw"
StopEndsSentence_Never(active, raws) == FALSE
StopEndsSentence(active, raws) == active /\ raws # <<>>

\* the result carried by SentenceEnd
FinalResult(raws, params, stop) ==
    LET joined == Join(raws)
        punct == IF params.enable_punctuation_prediction
                 THEN apply_final_punctuation(joined, stop) ELSE joined
    IN IF params.enable_inverse_text_normalization /\ punct # <<>>
       THEN apply_itn_to_text(punct) ELSE punct

\* the mark the realtime punctuation model puts after a text: a comma, or a
\* full stop where it takes the text for the end of a sentence
RealtimeMark(raw) == IF raw[Len(raw)] = "b" THEN "." ELSE ","

\* _is_sentence_boundary: the text ends with a terminal mark
is_sentence_boundary(text) == text # <<>> /\ text[Len(text)] = "."

\* is_sentence_end of the chunk loop: the empty results in a row have reached
\* max_empty_count, or a silence frame was detected, in an active sentence.
\* _process_audio_chunk never sets it: its test of _is_sentence_boundary is
\* commented out.
is_sentence_end_OnBoundary(text, erc1, silence, params) ==
    \/ text = <<>> /\ sentence_active /\ erc1 >= max_empty_count(params)
    \/ silence /\ sentence_active /\ sentence_texts_raw # <<>>
    \/ is_sentence_boundary(text)
is_sentence_end(text, erc1, silence, params) ==
    \/ text = <<>> /\ sentence_active /\ erc1 >= max_empty_count(params)
    \/ silence /\ sentence_active /\ sentence_texts_raw # <<>>

\* result_text_with_punc of _process_audio_chunk
PunctuatedPartial(res, params) ==
    IF res.raw # <<>> /\ cfg.ASR_ENABLE_REALTIME_PUNC
       /\ params.enable_punctuation_prediction /\ res.punc
    THEN Append(res.raw, RealtimeMark(res.raw)) ELSE res.raw

(***************************************************************************)
(* ASR WebSocket session: state after the connection is accepted.           *)
(***************************************************************************)
sentenceVars == <<sentence_index, audio_time, sentence_active,
                  sentence_start_time, last_sentence_text, sentence_texts,
                  sentence_texts_raw, empty_result_count>>
cacheVars == <<audio_cache, punc_cache>>
bufferVars == <<audio_buffer, selected_chunk_size, asr_next_sample, asr_detached>>
gateVars == <<filter_rms, silence_frame>>
textFrameVars == <<cfg, asr_ws, cacheVars, bufferVars, gateVars, asr_audio_in>>

InitASRVars ==
    /\ asr_pc = "recv"
    /\ asr_ws = "CONNECTED"
    /\ asr_state = "READY"
    /\ asr_task_id = ConnTaskId
    /\ transcription_params = None
    /\ audio_cache = "empty"
    /\ punc_cache = "empty"
    /\ sentence_index = 0
    /\ audio_time = 0
    /\ sentence_active = FALSE
    /\ sentence_start_time = 0
    /\ last_sentence_text = <<>>
    /\ sentence_texts = <<>>
    /\ sentence_texts_raw = <<>>
    /\ empty_result_count = 0
    /\ audio_buffer = <<>>
    /\ selected_chunk_size = 0
    /\ asr_out = <<>>
    /\ asr_shown = <<>>
    /\ asr_final = <<>>
    /\ asr_in = 0
    /\ asr_audio_in = 0
    /\ asr_errs = 0
    /\ asr_next_sample = 0
    /\ asr_detached = <<>>
    /\ filter_rms = 0
    /\ silence_frame = FALSE

\* _send_task_failed: the frame is sent and a failed send is swallowed; the
\* caller decides whether the receive loop goes on (next_pc)
AsrSendTaskFailed(reason, next_pc) ==
    /\ asr_errs < MaxErrors
    /\ asr_errs' = asr_errs + 1
    /\ asr_out' = IF asr_ws = "CONNECTED"
                  THEN Append(asr_out, Msg("TaskFailed", 0, Cause(reason)))
                  ELSE asr_out
    /\ asr_pc' = next_pc
    /\ UNCHANGED <<asr_shown, asr_final>>

\* the other _send_* methods: a failed send raises WebSocketDisconnect, which
\* ends the handler; shown and final are the result histories after the send
AsrSendResults(msgs, shown, final, next_pc) ==
    /\ asr_errs' = asr_errs
    /\ IF msgs = <<>> \/ asr_ws = "CONNECTED"
       THEN /\ asr_out' = asr_out \o msgs
            /\ asr_shown' = shown
            /\ asr_final' = final
            /\ asr_pc' = next_pc
       ELSE /\ asr_pc' = "closed"
            /\ UNCHANGED <<asr_out, asr_shown, asr_final>>

AsrSend(msgs, next_pc) == AsrSendResults(msgs, asr_shown, asr_final, next_pc)

\* message = await websocket.receive()
AsrReceives ==
    /\ asr_pc = "recv"
    /\ asr_ws = "CONNECTED"
    /\ asr_in < MaxFrames
    /\ asr_in' = asr_in + 1

(***************************************************************************)
(* ASR WebSocket session: text frames.                                      *)
(***************************************************************************)
\* json.loads raises JSONDecodeError
AsrNotJson ==
    /\ UNCHANGED nonAsrVars
    /\ AsrReceives
    /\ AsrSendTaskFailed("Message Not Json", "recv")
    /\ UNCHANGED <<textFrameVars, asr_state, asr_task_id, transcription_params,
                   sentenceVars>>

\* the JSON text is not an object: data.get raises, except Exception ... break
AsrNotObject ==
    /\ UNCHANGED nonAsrVars
    /\ AsrReceives
    /\ AsrSendTaskFailed("handler exception", "closed")
    /\ UNCHANGED <<textFrameVars, asr_state, asr_task_id, transcription_params,
                   sentenceVars>>

AsrInvalidNamespace ==
    /\ UNCHANGED nonAsrVars
    /\ AsrReceives
    /\ AsrSendTaskFailed("Invalid namespace", "recv")
    /\ UNCHANGED <<textFrameVars, asr_state, asr_task_id, transcription_params,
                   sentenceVars>>

AsrInvalidMessageName ==
    /\ UNCHANGED nonAsrVars
    /\ AsrReceives
    /\ AsrSendTaskFailed("Invalid message name", "recv")
    /\ UNCHANGED <<textFrameVars, asr_state, asr_task_id, transcription_params,
                   sentenceVars>>

\* parsed = FALSE: _parse_start_transcription fails on the payload, returns None
AsrStartTranscription(message_task_id, payload, parsed) ==
    /\ UNCHANGED nonAsrVars
    /\ AsrReceives
    /\ IF asr_state = "READY"
       THEN IF parsed
            THEN /\ transcription_params' = payload
                 /\ asr_task_id' = IF message_task_id # "" THEN message_task_id
                                   ELSE asr_task_id
                 /\ AsrSend(<<Msg("TranscriptionStarted", 0, "")>>, "recv")
                 /\ asr_state' = "STARTED"
                 /\ sentence_index' = 0
                 /\ audio_time' = 0
                 /\ sentence_active' = FALSE
                 /\ sentence_start_time' = 0
                 /\ last_sentence_text' = <<>>
                 /\ sentence_texts' = <<>>
                 /\ sentence_texts_raw' = <<>>
                 /\ empty_result_count' = 0
            ELSE /\ AsrSendTaskFailed("Invalid StartTranscription parameters", "recv")
                 /\ transcription_params' = None
                 /\ UNCHANGED <<asr_state, asr_task_id, sentenceVars>>
       ELSE /\ AsrSendTaskFailed("Connection already started", "recv")
            /\ UNCHANGED <<asr_state, asr_task_id, transcription_params, sentenceVars>>
    /\ UNCHANGED textFrameVars

\* after TranscriptionCompleted the receive loop is left: break
AsrAfterStop_StaysOpen == "recv"
AsrAfterStop == "closed"

\* stop: whether the offline punctuation model adds a full stop
AsrStopTranscription(message_task_id, stop) ==
    /\ UNCHANGED nonAsrVars
    /\ AsrReceives
    /\ IF asr_state = "STARTED"
       THEN IF message_task_id # asr_task_id
            THEN /\ AsrSendTaskFailed("Task ID not match", "recv")
                 /\ UNCHANGED <<asr_state, sentence_index>>
            ELSE IF StopEndsSentence(sentence_active, sentence_texts_raw)
                 THEN /\ sentence_index' = NextSentenceIndex(sentence_index)
                      /\ AsrSendResults(<<Msg("SentenceEnd",
                                              NextSentenceIndex(sentence_index), ""),
                                          Msg("TranscriptionCompleted", 0, "")>>,
                                        asr_shown,
                                        FinalResult(sentence_texts_raw,
                                                    transcription_params, stop),
                                        AsrAfterStop)
                      /\ asr_state' = "COMPLETED"
                 ELSE /\ AsrSend(<<Msg("TranscriptionCompleted", 0, "")>>,
                                 AsrAfterStop)
                      /\ asr_state' = "COMPLETED"
                      /\ UNCHANGED sentence_index
       ELSE /\ AsrSendTaskFailed("Connection not started", "recv")
            /\ UNCHANGED <<asr_state, sentence_index>>
    /\ UNCHANGED <<textFrameVars, asr_task_id, transcription_params,
                   audio_time, sentence_active, sentence_start_time,
                   last_sentence_text, sentence_texts, sentence_texts_raw,
                   empty_result_count>>

(***************************************************************************)
(* ASR WebSocket session: binary frames and the chunk loop.                 *)
(***************************************************************************)
AsrRecvAudio(frame) ==
    /\ UNCHANGED nonAsrVars
    /\ AsrReceives
    /\ asr_audio_in < MaxAudioFrames
    /\ asr_audio_in' = asr_audio_in + 1
    /\ IF asr_state # "STARTED"
       THEN /\ AsrSendTaskFailed("Connection not started", "recv")
            /\ UNCHANGED bufferVars
       ELSE IF ~frame.ok
       THEN \* _convert_audio_bytes_to_array raises
            /\ AsrSendTaskFailed("Audio processing failed", "recv")
            /\ UNCHANGED bufferVars
       ELSE LET incoming == <<<<asr_next_sample, asr_next_sample + frame.samples - 1>>>>
                buffer == Concat(audio_buffer, incoming)
                size == SelectChunkSize(SamplesLen(buffer))
            IN /\ audio_buffer' = buffer
               /\ asr_next_sample' = asr_next_sample + frame.samples
               /\ asr_detached' = asr_detached
               /\ selected_chunk_size' = size
               /\ AsrSend(<<>>, IF size = 0 THEN "recv" ELSE "chunks")
    /\ UNCHANGED <<cfg, asr_ws, asr_state, asr_task_id, transcription_params,
                   cacheVars, gateVars, sentenceVars>>

\* the chunk is gated while no sentence is active: only the clock advances
AsrChunkDropped(dur, next_pc) ==
    /\ audio_time' = audio_time + dur
    /\ AsrSend(<<>>, next_pc)
    /\ UNCHANGED <<cacheVars, sentence_index, sentence_active,
                   sentence_start_time, last_sentence_text, sentence_texts,
                   sentence_texts_raw, empty_result_count>>

\* _process_audio_chunk raises on the chunk: except Exception, no break
AsrChunkFailed ==
    /\ AsrSendTaskFailed("Audio processing failed", "recv")
    /\ audio_cache' = "used"
    /\ UNCHANGED <<punc_cache, sentenceVars>>

AsrSentenceEnd_KeepsTexts(at1, erc1, fl, stop, next_pc) ==
    IF fl.raises
    THEN /\ AsrSendTaskFailed("Audio processing failed", "recv")
         /\ audio_time' = at1
         /\ empty_result_count' = erc1
         /\ audio_cache' = "used"
         /\ UNCHANGED <<punc_cache, sentence_index, sentence_active,
                        sentence_start_time, last_sentence_text, sentence_texts,
                        sentence_texts_raw>>
    ELSE LET raws == IF fl.raw # <<>> THEN AppendDedup(sentence_texts_raw, fl.raw)
                     ELSE sentence_texts_raw
         IN /\ sentence_index' = NextSentenceIndex(sentence_index)
            /\ audio_time' = at1
            /\ sentence_active' = FALSE
            /\ sentence_start_time' = 0
            /\ last_sentence_text' = <<>>
            /\ sentence_texts' = sentence_texts
            /\ sentence_texts_raw' = sentence_texts_raw
            /\ empty_result_count' = 0
            /\ audio_cache' = "empty"
            /\ punc_cache' = "empty"
            /\ AsrSendResults(<<Msg("SentenceEnd",
                                    NextSentenceIndex(sentence_index), "")>>,
                              asr_shown,
                              FinalResult(raws, transcription_params, stop),
                              next_pc)

\* the sentence ends on this chunk: flush, SentenceEnd, reset
AsrSentenceEnd(at1, erc1, fl, stop, next_pc) ==
    IF fl.raises
    THEN /\ AsrSendTaskFailed("Audio processing failed", "recv")
         /\ audio_time' = at1
         /\ empty_result_count' = erc1
         /\ audio_cache' = "used"
         /\ UNCHANGED <<punc_cache, sentence_index, sentence_active,
                        sentence_start_time, last_sentence_text, sentence_texts,
                        sentence_texts_raw>>
    ELSE LET raws == IF fl.raw # <<>> THEN AppendDedup(sentence_texts_raw, fl.raw)
                     ELSE sentence_texts_raw
         IN /\ sentence_index' = NextSentenceIndex(sentence_index)
            /\ audio_time' = at1
            /\ sentence_active' = FALSE
            /\ sentence_start_time' = 0
            /\ last_sentence_text' = <<>>
            /\ sentence_texts' = <<>>
            /\ sentence_texts_raw' = <<>>
            /\ empty_result_count' = 0
            /\ audio_cache' = "empty"
            /\ punc_cache' = "empty"
            /\ AsrSendResults(<<Msg("SentenceEnd",
                                    NextSentenceIndex(sentence_index), "")>>,
                              asr_shown,
                              FinalResult(raws, transcription_params, stop),
                              next_pc)

\* the text of a TranscriptionResultChanged: all partial texts of the sentence
AccumulatedText_NewestOnly(texts) == texts[Len(texts)]
AccumulatedText(texts) == Join(texts)

\* a non-empty partial: SentenceBegin on the first one, then the accumulated
\* text as TranscriptionResultChanged
AsrPartial(text, raw, at1, chunk_start_time, pcache1, next_pc) ==
    IF text # last_sentence_text
    THEN LET begins == ~sentence_active
             texts == IF begins THEN <<text>> ELSE AppendDedup(sentence_texts, text)
             raws == IF begins THEN <<raw>> ELSE AppendDedup(sentence_texts_raw, raw)
             start == IF begins THEN chunk_start_time ELSE sentence_start_time
             begin == IF begins
                      THEN <<Msg("SentenceBegin",
                                 SentenceBeginIndex(sentence_index), "")>>
                      ELSE <<>>
             changed == IF transcription_params.enable_intermediate_result
                        THEN <<Msg("TranscriptionResultChanged",
                                   SentenceBeginIndex(sentence_index), "")>>
                        ELSE <<>>
             shown == (IF begins THEN <<>> ELSE asr_shown) \o
                      (IF transcription_params.enable_intermediate_result
                       THEN <<AccumulatedText(texts)>> ELSE <<>>)
         IN /\ last_sentence_text' = text
            /\ sentence_texts' = texts
            /\ sentence_texts_raw' = raws
            /\ sentence_active' = TRUE
            /\ sentence_start_time' = start
            /\ empty_result_count' = 0
            /\ audio_time' = at1
            /\ audio_cache' = "used"
            /\ punc_cache' = pcache1
            /\ AsrSendResults(begin \o changed, shown, asr_final, next_pc)
            /\ UNCHANGED sentence_index
    ELSE /\ empty_result_count' = 0
         /\ audio_time' = at1
         /\ audio_cache' = "used"
         /\ punc_cache' = pcache1
         /\ AsrSend(<<>>, next_pc)
         /\ UNCHANGED <<sentence_index, sentence_active, sentence_start_time,
                        last_sentence_text, sentence_texts, sentence_texts_raw>>

\* an empty result that does not end the sentence: only the counters move
AsrEmptyResult(at1, erc1, near, next_pc) ==
    /\ audio_time' = at1
    /\ empty_result_count' = erc1
    /\ audio_cache' = IF near THEN "used" ELSE audio_cache
    /\ AsrSend(<<>>, next_pc)
    /\ UNCHANGED <<punc_cache, sentence_index, sentence_active,
                   sentence_start_time, last_sentence_text, sentence_texts,
                   sentence_texts_raw>>

\* audio_chunk = audio_buffer[:n]; audio_buffer = audio_buffer[n:]
Detach_Overlapping(buffer, n) ==
    [audio_chunk |-> TakeSamples(buffer, n), audio_buffer |-> DropSamples(buffer, n - 1)]
Detach(buffer, n) ==
    [audio_chunk |-> TakeSamples(buffer, n), audio_buffer |-> DropSamples(buffer, n)]

\* a chunk gated while a sentence is active: result_text = "",
\* result_text_raw = "", no model call
GatedResult_Text == [raises |-> FALSE, raw |-> <<"a">>, punc |-> FALSE]
GatedResult == [raises |-> FALSE, raw |-> <<>>, punc |-> FALSE]

\* one iteration of "while len(audio_buffer) >= selected_chunk_size"
AsrProcessChunk ==
    /\ UNCHANGED nonAsrVars
    /\ asr_pc = "chunks"
    /\ LET params == transcription_params
           n == selected_chunk_size
           rest == Detach(audio_buffer, n).audio_buffer
           next_pc == IF SamplesLen(rest) >= n THEN "chunks" ELSE "recv"
           chunk_start_time == audio_time
           dur == chunk_duration_ms(n, params.sample_rate)
           at1 == audio_time + dur
       IN /\ audio_buffer' = rest
          /\ asr_detached' = Concat(asr_detached, Detach(audio_buffer, n).audio_chunk)
          /\ \E a \in ChunkAudio :
               LET near == is_nearfield_voice(a, sentence_active,
                                              cfg.ASR_ENABLE_NEARFIELD_FILTER)
                   rms_energy == calculate_rms_energy(a, cfg.ASR_ENABLE_NEARFIELD_FILTER)
               IN /\ filter_rms' = rms_energy
                  /\ IF ~near /\ ~sentence_active
                     THEN /\ AsrChunkDropped(dur, next_pc)
                          /\ UNCHANGED silence_frame
                     ELSE \E res \in IF near THEN ModelResults ELSE {GatedResult} :
                            IF res.raises
                            THEN /\ AsrChunkFailed
                                 /\ UNCHANGED silence_frame
                            ELSE LET text == PunctuatedPartial(res, params)
                                     silence == near /\ is_silence_frame(a, dur)
                                     erc1 == IF text = <<>> THEN empty_result_count + 1
                                             ELSE 0
                                     ends == is_sentence_end(text, erc1, silence, params)
                                     pcache1 ==
                                         IF res.raw # <<>> /\ cfg.ASR_ENABLE_REALTIME_PUNC
                                            /\ params.enable_punctuation_prediction
                                         THEN "used" ELSE punc_cache
                                 IN /\ silence_frame' = silence
                                    /\ IF ends /\ sentence_active
                                       THEN \E fl \in FlushResults, stop \in BOOLEAN :
                                              AsrSentenceEnd(at1, erc1, fl, stop, next_pc)
                                       ELSE IF text # <<>>
                                       THEN AsrPartial(text, res.raw, at1, chunk_start_time,
                                                       pcache1, next_pc)
                                       ELSE AsrEmptyResult(at1, erc1, near, next_pc)
    /\ UNCHANGED <<cfg, asr_ws, asr_state, asr_task_id, transcription_params,
                   selected_chunk_size, asr_next_sample, asr_in, asr_audio_in>>

(***************************************************************************)
(* ASR WebSocket session: the client side of the socket.                    *)
(***************************************************************************)
\* the client goes away; a handler waiting in receive() returns at once
\* (receive raises), a handler inside the chunk loop notices at its next send
\* or receive
AsrClientDisconnect ==
    /\ UNCHANGED nonAsrVars
    /\ asr_pc # "closed"
    /\ asr_ws = "CONNECTED"
    /\ asr_ws' = "DISCONNECTED"
    /\ asr_pc' = IF asr_pc = "recv" THEN "closed" ELSE asr_pc
    /\ UNCHANGED <<cfg, asr_state, asr_task_id, transcription_params,
                   cacheVars, gateVars, sentenceVars, bufferVars, asr_out, asr_shown, asr_final,
                   asr_in, asr_audio_in, asr_errs>>

\* websocket.receive() on a disconnected socket raises: the handler returns
AsrRecvDisconnected ==
    /\ UNCHANGED nonAsrVars
    /\ asr_pc = "recv"
    /\ asr_ws = "DISCONNECTED"
    /\ asr_pc' = "closed"
    /\ UNCHANGED <<cfg, asr_ws, asr_state, asr_task_id, transcription_params,
                   cacheVars, gateVars, sentenceVars, bufferVars, asr_out, asr_shown, asr_final,
                   asr_in, asr_audio_in, asr_errs>>

NextASR ==
    \/ AsrNotJson
    \/ AsrNotObject
    \/ AsrInvalidNamespace
    \/ AsrInvalidMessageName
    \/ \E t \in MsgTaskIds, p \in StartPayloads, parsed \in BOOLEAN :
          AsrStartTranscription(t, p, parsed)
    \/ \E t \in MsgTaskIds, stop \in BOOLEAN : AsrStopTranscription(t, stop)
    \/ \E f \in AudioFrames : AsrRecvAudio(f)
    \/ AsrProcessChunk
    \/ AsrClientDisconnect
    \/ AsrRecvDisconnected

\* the sessions of a client that follows the protocol: StartTranscription
\* with the task_id of the connection, audio frames, StopTranscription; the
\* client may go away at any time
NextASRAudio ==
    \/ \E p \in StartPayloads : AsrStartTranscription(ConnTaskId, p, TRUE)
    \/ \E stop \in BOOLEAN : AsrStopTranscription(ConnTaskId, stop)
    \/ \E f \in AudioFrames : AsrRecvAudio(f)
    \/ AsrProcessChunk
    \/ AsrClientDisconnect
    \/ AsrRecvDisconnected

\* binary frames that carry more than the largest standard chunk: 840 ms of
\* audio at 16 kHz
LongFrames == { [samples |-> 13440, ok |-> TRUE] }

\* the sessions of NextASR and those of clients that send long frames
NextASRFrames ==
    \/ NextASR
    \/ \E f \in LongFrames : AsrRecvAudio(f)

\* the sessions of NextASR and those of clients that ask for another sample rate
NextASRRates ==
    \/ NextASR
    \/ \E t \in MsgTaskIds, p \in OtherRatePayloads, parsed \in BOOLEAN :
          AsrStartTranscription(t, p, parsed)

(***************************************************************************)
(* TTS WebSocket session (app/services/websocket_tts.py).                   *)
(***************************************************************************)
ttsLocals == <<tts_state, tts_task_id, synthesis_params>>
ttsRunVars == <<audio_sent, tts_chunks, tts_runs, tts_cut>>

InitTTSLocals ==
    /\ tts_ws = "CONNECTED"
    /\ tts_state = "READY"
    /\ tts_task_id = ConnTaskId
    /\ synthesis_params = "None"
    /\ audio_sent = FALSE
    /\ tts_out = <<>>
    /\ tts_in = 0
    /\ tts_errs = 0
    /\ tts_chunks = 0
    /\ tts_runs = 0
    /\ tts_cut = 0

\* a connection that has passed the check of its token waits for a message
InitTTSVars == tts_pc = "recv" /\ InitTTSLocals

\* the status_text classes of the TaskFailed frames of the TTS session
TtsCause(status_text) ==
    IF status_text = "Synthesis failed" THEN "synthesis"
    ELSE IF status_text = "X-NLS-Token not found in ws header" THEN "token missing"
    ELSE IF status_text = "handler exception" THEN "exception"
    ELSE "protocol"

\* _send_task_failed: a failed send is swallowed; the caller decides whether
\* the receive loop goes on (next_pc)
TtsSendTaskFailed(reason, next_pc) ==
    /\ tts_errs < MaxErrors
    /\ tts_errs' = tts_errs + 1
    /\ tts_out' = IF tts_ws = "CONNECTED"
                  THEN Append(tts_out, Msg("TaskFailed", 0, TtsCause(reason)))
                  ELSE tts_out
    /\ tts_pc' = next_pc

\* message = await websocket.receive_text()
TtsReceives ==
    /\ tts_pc = "recv"
    /\ tts_ws = "CONNECTED"
    /\ tts_in < MaxFrames
    /\ tts_in' = tts_in + 1

\* json.loads raises JSONDecodeError
TtsNotJson ==
    /\ UNCHANGED nonTtsVars
    /\ TtsReceives
    /\ TtsSendTaskFailed("Message Not Json", "recv")
    /\ UNCHANGED <<tts_ws, ttsLocals, ttsRunVars>>

\* the JSON text is not an object: data.get raises, except Exception ... break
TtsNotObject ==
    /\ UNCHANGED nonTtsVars
    /\ TtsReceives
    /\ TtsSendTaskFailed("handler exception", "closed")
    /\ UNCHANGED <<tts_ws, ttsLocals, ttsRunVars>>

TtsInvalidNamespace ==
    /\ UNCHANGED nonTtsVars
    /\ TtsReceives
    /\ TtsSendTaskFailed("Invalid namespace", "recv")
    /\ UNCHANGED <<tts_ws, ttsLocals, ttsRunVars>>

TtsInvalidMessageName ==
    /\ UNCHANGED nonTtsVars
    /\ TtsReceives
    /\ TtsSendTaskFailed("Invalid message name", "recv")
    /\ UNCHANGED <<tts_ws, ttsLocals, ttsRunVars>>

\* parsed = FALSE: _parse_start_synthesis rejects the format or the sample
\* rate and returns None
TtsStartSynthesis(message_task_id, parsed) ==
    /\ UNCHANGED nonTtsVars
    /\ TtsReceives
    /\ IF tts_state = "READY"
       THEN IF parsed
            THEN /\ synthesis_params' = "params"
                 /\ tts_task_id' = IF message_task_id # "" THEN message_task_id
                                   ELSE tts_task_id
                 /\ tts_out' = Append(tts_out, Msg("SynthesisStarted", 0, ""))
                 /\ tts_state' = "STARTED"
                 /\ UNCHANGED <<tts_pc, tts_errs>>
            ELSE /\ synthesis_params' = "None"
                 /\ TtsSendTaskFailed("Invalid StartSynthesis parameters", "recv")
                 /\ UNCHANGED <<tts_state, tts_task_id>>
       ELSE /\ TtsSendTaskFailed("Connection already started", "recv")
            /\ UNCHANGED ttsLocals
    /\ UNCHANGED <<tts_ws, ttsRunVars>>

\* RunSynthesis; has_text: the payload carries a non-empty text.  An accepted
\* message enters _run_synthesis, which sends SentenceBegin and starts to
\* iterate _synthesize_streaming_audio
TtsRunSynthesis(message_task_id, has_text) ==
    /\ UNCHANGED nonTtsVars
    /\ TtsReceives
    /\ IF tts_state # "STARTED"
       THEN /\ TtsSendTaskFailed("Connection not started", "recv")
            /\ UNCHANGED ttsRunVars
       ELSE IF message_task_id # tts_task_id
       THEN /\ TtsSendTaskFailed("Task ID not match", "recv")
            /\ UNCHANGED ttsRunVars
       ELSE IF has_text /\ synthesis_params # "None"
       THEN /\ tts_out' = Append(tts_out, Msg("SentenceBegin", 0, ""))
            /\ tts_pc' = "stream"
            /\ audio_sent' = FALSE
            /\ tts_chunks' = 0
            /\ tts_runs' = tts_runs + 1
            /\ UNCHANGED <<tts_errs, tts_cut>>
       ELSE /\ TtsSendTaskFailed("Missing text in RunSynthesis", "recv")
            /\ UNCHANGED ttsRunVars
    /\ UNCHANGED <<tts_ws, ttsLocals>>

\* after SynthesisCompleted the receive loop is left: break
AfterStop_StaysOpen == "recv"
AfterStop == "closed"

TtsStopSynthesis(message_task_id) ==
    /\ UNCHANGED nonTtsVars
    /\ TtsReceives
    /\ IF tts_state # "STARTED"
       THEN /\ TtsSendTaskFailed("Connection not started", "recv")
            /\ UNCHANGED tts_state
       ELSE IF message_task_id # tts_task_id
       THEN /\ TtsSendTaskFailed("Task ID not match", "recv")
            /\ UNCHANGED tts_state
       ELSE /\ tts_out' = Append(tts_out, Msg("SynthesisCompleted", 0, ""))
            /\ tts_state' = "COMPLETED"
            /\ tts_pc' = AfterStop
            /\ UNCHANGED tts_errs
    /\ UNCHANGED <<tts_ws, tts_task_id, synthesis_params, ttsRunVars>>

\* one iteration of the "async for audio_chunk" loop of _run_synthesis;
\* empty: the chunk is b"" and is skipped; detected: a gone client shows in
\* websocket.client_state (return), otherwise send_bytes raises
TtsStreamChunk(empty, detected) ==
    /\ UNCHANGED nonTtsVars
    /\ tts_pc = "stream"
    /\ tts_chunks < MaxChunks
    /\ tts_chunks' = tts_chunks + 1
    /\ IF empty
       THEN UNCHANGED <<tts_pc, tts_out, audio_sent, tts_cut>>
       ELSE IF tts_ws = "CONNECTED"
       THEN /\ tts_out' = tts_out \o <<Msg("audio", 0, ""),
                                       Msg("SentenceSynthesis", 0, "")>>
            /\ audio_sent' = TRUE
            /\ UNCHANGED <<tts_pc, tts_cut>>
       ELSE /\ tts_pc' = IF detected THEN "recv" ELSE "closed"
            /\ tts_cut' = tts_cut + 1
            /\ UNCHANGED <<tts_out, audio_sent>>
    /\ UNCHANGED <<tts_ws, ttsLocals, tts_in, tts_errs, tts_runs>>

\* the stream is exhausted: _send_sentence_end
TtsRunSynthesisEnd_NoSentenceEnd ==
    /\ UNCHANGED nonTtsVars
    /\ tts_pc = "stream"
    /\ tts_pc' = "recv"
    /\ UNCHANGED <<tts_ws, ttsLocals, audio_sent, tts_out, tts_in, tts_errs,
                   tts_chunks, tts_runs, tts_cut>>

\* the frames sent when the stream of a run is exhausted
RunEndFrames_TrailingAudio == <<Msg("SentenceEnd", 0, ""), Msg("audio", 0, "")>>
RunEndFrames == <<Msg("SentenceEnd", 0, "")>>

TtsRunSynthesisEnd ==
    /\ UNCHANGED nonTtsVars
    /\ tts_pc = "stream"
    /\ IF tts_ws = "CONNECTED"
       THEN /\ tts_out' = tts_out \o RunEndFrames
            /\ tts_pc' = "recv"
            /\ UNCHANGED tts_cut
       ELSE /\ tts_pc' = "closed"
            /\ tts_cut' = tts_cut + 1
            /\ UNCHANGED tts_out
    /\ UNCHANGED <<tts_ws, ttsLocals, audio_sent, tts_in, tts_errs, tts_chunks,
                   tts_runs>>

\* the stream raises (engine error, voice missing, model not loaded): except
\* Exception sends TaskFailed "Synthesis failed: ..." and _run_synthesis
\* returns to the receive loop
TtsRunSynthesisFails ==
    /\ UNCHANGED nonTtsVars
    /\ tts_pc = "stream"
    /\ TtsSendTaskFailed("Synthesis failed", "recv")
    /\ tts_cut' = tts_cut + 1
    /\ UNCHANGED <<tts_ws, ttsLocals, audio_sent, tts_in, tts_chunks, tts_runs>>

\* the client goes away; a handler waiting in receive_text() returns at once
TtsClientDisconnect ==
    /\ UNCHANGED nonTtsVars
    /\ tts_pc # "closed"
    /\ tts_ws = "CONNECTED"
    /\ tts_ws' = "DISCONNECTED"
    /\ tts_pc' = IF tts_pc = "recv" THEN "closed" ELSE tts_pc
    /\ UNCHANGED <<ttsLocals, ttsRunVars, tts_out, tts_in, tts_errs>>

\* receive_text() on a disconnected socket raises: the handler returns
TtsRecvDisconnected ==
    /\ UNCHANGED nonTtsVars
    /\ tts_pc = "recv"
    /\ tts_ws = "DISCONNECTED"
    /\ tts_pc' = "closed"
    /\ UNCHANGED <<tts_ws, ttsLocals, ttsRunVars, tts_out, tts_in, tts_errs>>

\* the handshakes of a connection: APPTOKEN configured or not, the header
\* absent (or empty) or carrying a token
Handshakes == [APPTOKEN : BOOLEAN, x_nls_token : {"", "token"}]
\* no APPTOKEN, no header: the check lets the connection through
OptionalAuth == [APPTOKEN |-> FALSE, x_nls_token |-> ""]

\* the getters of the global singletons
Getters ==
    {"get_global_vad_model", "get_global_punc_model",
     "get_global_punc_realtime_model", "get_tts_engine", "get_executor"}
\* those that run "with <lock>:"; get_executor has no lock
LockedGetters == Getters \ {"get_executor"}
\* those that return after the with block: "return _global_*_model"
ModelGetters == LockedGetters \ {"get_tts_engine"}
Callers == 1..NumCallers

InitSingVars ==
    /\ singleton = [g \in Getters |-> [instance |-> 0, lock |-> 0, made |-> 0]]
    /\ getter_call = [t \in Callers |-> [pc |-> "idle", getter |-> "none",
                                         got |-> [g \in Getters |-> 0]]]
    /\ getter_calls = 0

InitEnvVars == ws_handshake = OptionalAuth /\ http_out = <<>> /\ InitSingVars

\* where the handler goes after the TaskFailed of a refused token: return
AfterRefusal_GoesOn == "recv"
AfterRefusal == "closed"

\* the check of X-NLS-Token that opens _process_websocket_connection; valid:
\* what validate_token_websocket answers for the token
TtsAuthenticate(valid) ==
    /\ UNCHANGED nonTtsVars
    /\ tts_pc = "auth"
    /\ IF ws_handshake.APPTOKEN /\ ws_handshake.x_nls_token = ""
       THEN TtsSendTaskFailed("X-NLS-Token not found in ws header", AfterRefusal)
       ELSE IF ws_handshake.x_nls_token # "" /\ ~valid
       THEN TtsSendTaskFailed("token refused", AfterRefusal)
       ELSE /\ tts_pc' = "recv"
            /\ UNCHANGED <<tts_out, tts_errs>>
    /\ UNCHANGED <<tts_ws, ttsLocals, ttsRunVars, tts_in>>

NextTTS ==
    \/ TtsNotJson
    \/ TtsNotObject
    \/ TtsInvalidNamespace
    \/ TtsInvalidMessageName
    \/ \E t \in MsgTaskIds, parsed \in BOOLEAN : TtsStartSynthesis(t, parsed)
    \/ \E t \in MsgTaskIds, has_text \in BOOLEAN : TtsRunSynthesis(t, has_text)
    \/ \E t \in MsgTaskIds : TtsStopSynthesis(t)
    \/ \E empty \in BOOLEAN, detected \in BOOLEAN : TtsStreamChunk(empty, detected)
    \/ TtsRunSynthesisEnd
    \/ TtsRunSynthesisFails
    \/ TtsClientDisconnect
    \/ TtsRecvDisconnected

\* a TTS connection from its opening
NextTTSAuth ==
    \/ NextTTS
    \/ \E valid \in BOOLEAN : TtsAuthenticate(valid)

(***************************************************************************)
(* Engine pool: MultiGPUTTSEngine (app/services/tts/engine.py) and          *)
(* MultiGPUASREngine (app/services/asr/engine.py), which share the code of  *)
(* _select_engine and _release_engine.                                      *)
(***************************************************************************)
Engines == 0..(NumEngines - 1)
Holders == 1..MaxHolders
NoEngine == -1

\* min(self._engine_active_count)
MinCount(counts) == CHOOSE m \in {counts[i] : i \in Engines} :
                        \A i \in Engines : m <= counts[i]

select_engine_LastMinimum(counts) ==
    CHOOSE i \in Engines :
        /\ counts[i] = MinCount(counts)
        /\ \A j \in Engines : j > i => counts[j] # MinCount(counts)
\* _select_engine: the first index whose count is the minimum
select_engine(counts) ==
    CHOOSE i \in Engines :
        /\ counts[i] = MinCount(counts)
        /\ \A j \in Engines : j < i => counts[j] # MinCount(counts)

\* _release_engine: the count of an index in range is decremented, not
\* below zero
release_engine_NoFloor(counts, index) ==
    IF index \in Engines THEN [counts EXCEPT ![index] = @ - 1] ELSE counts
release_engine(counts, index) ==
    IF index \in Engines THEN [counts EXCEPT ![index] = Max(0, @ - 1)] ELSE counts

InitPoolVars ==
    /\ engine_active_count = [i \in Engines |-> 0]
    /\ h_pc = [h \in Holders |-> "idle"]
    /\ h_kind = [h \in Holders |-> "none"]
    /\ engine_index = [h \in Holders |-> NoEngine]
    /\ h_yields = [h \in Holders |-> 0]
    /\ h_releases = [h \in Holders |-> 0]
    /\ h_exit = [h \in Holders |-> "none"]
    /\ h_requests = 0
    /\ pool_calls = 0
    /\ pool_last = [op |-> "none", index |-> NoEngine, before |-> 0]

\* a request starts on holder h and selects a replica
HolderSelects(h, kind, pc) ==
    /\ h_pc[h] = "idle"
    /\ h_requests < MaxRequests
    /\ h_requests' = h_requests + 1
    /\ LET i == select_engine(engine_active_count)
       IN /\ engine_active_count' = [engine_active_count EXCEPT ![i] = @ + 1]
          /\ engine_index' = [engine_index EXCEPT ![h] = i]
    /\ h_kind' = [h_kind EXCEPT ![h] = kind]
    /\ h_pc' = [h_pc EXCEPT ![h] = pc]
    /\ h_yields' = [h_yields EXCEPT ![h] = 0]
    /\ h_releases' = [h_releases EXCEPT ![h] = 0]
    /\ h_exit' = [h_exit EXCEPT ![h] = "none"]
    /\ UNCHANGED <<apiVars, nonPoolVars>>

\* the finally block of the holder: "if engine_index is not None:
\* _release_engine(engine_index)" (stream), "_release_engine(idx)" (one-shot)
HolderExits(h, exit) ==
    /\ engine_active_count' = release_engine(engine_active_count, engine_index[h])
    /\ h_releases' = [h_releases EXCEPT ![h] = @ + 1]
    /\ h_pc' = [h_pc EXCEPT ![h] = "done"]
    /\ h_exit' = [h_exit EXCEPT ![h] = exit]
    /\ UNCHANGED <<h_kind, engine_index, h_yields, h_requests, apiVars, nonPoolVars>>

\* the holder moves inside its body without touching the pool
HolderMoves(h, pc) ==
    /\ h_pc' = [h_pc EXCEPT ![h] = pc]
    /\ UNCHANGED <<engine_active_count, h_kind, engine_index, h_releases, h_exit,
                   h_requests, apiVars, nonPoolVars>>

\* _synthesize_streaming_audio is entered: engine_index, single_engine =
\* tts_engine._select_engine()
StreamSelect(h) == HolderSelects(h, "stream", "running")

\* yield chunk: the generator is suspended while _run_synthesis sends
StreamYield(h) ==
    /\ h_pc[h] = "running"
    /\ h_yields[h] < MaxYields
    /\ h_yields' = [h_yields EXCEPT ![h] = @ + 1]
    /\ HolderMoves(h, "suspended")

\* the consumer asks for the next chunk
StreamResume(h) ==
    /\ h_pc[h] = "suspended"
    /\ UNCHANGED h_yields
    /\ HolderMoves(h, "running")

\* the consumer leaves its "async for" with the generator suspended: return
\* on a client found disconnected, or an exception of send_bytes / send_text
StreamAbandon(h) ==
    /\ h_pc[h] = "suspended"
    /\ UNCHANGED h_yields
    /\ HolderMoves(h, "abandoned")

\* the event loop finalises the abandoned generator (aclose): GeneratorExit is
\* raised at the yield and the finally block runs
StreamFinalize_NoRelease(h) ==
    /\ h_pc[h] = "abandoned"
    /\ UNCHANGED h_yields
    /\ HolderMoves(h, "done")
StreamFinalize(h) ==
    /\ h_pc[h] = "abandoned"
    /\ HolderExits(h, "abandon")

\* the inner stream is exhausted, or returns on a client found disconnected
StreamReturn(h) ==
    /\ h_pc[h] = "running"
    /\ HolderExits(h, "return")

\* the inference raises, or no model is loaded for the voice
StreamRaise_NoRelease(h) ==
    /\ h_pc[h] = "running"
    /\ UNCHANGED h_yields
    /\ HolderMoves(h, "done")
StreamRaise(h) ==
    /\ h_pc[h] = "running"
    /\ HolderExits(h, "raise")

\* the task that runs the generator is cancelled while it waits for the
\* next chunk: CancelledError passes the except clauses, the finally runs
StreamCancel(h) ==
    /\ h_pc[h] = "running"
    /\ HolderExits(h, "cancel")

\* synthesize_speech, synthesize_with_preset_voice, transcribe_file,
\* transcribe_websocket: idx, engine = self._select_engine()
OneShotSelect(h) == HolderSelects(h, "oneshot", "call")

\* the engine call returns: finally
OneShotReturn(h) ==
    /\ h_pc[h] = "call"
    /\ HolderExits(h, "return")

\* the engine call raises: finally
OneShotRaise(h) ==
    /\ h_pc[h] = "call"
    /\ HolderExits(h, "raise")

\* the request of holder h is over; the slot serves the next request
HolderIdle(h) ==
    /\ h_pc[h] = "done"
    /\ h_requests < MaxRequests
    /\ h_kind' = [h_kind EXCEPT ![h] = "none"]
    /\ engine_index' = [engine_index EXCEPT ![h] = NoEngine]
    /\ h_yields' = [h_yields EXCEPT ![h] = 0]
    /\ h_releases' = [h_releases EXCEPT ![h] = 0]
    /\ h_exit' = [h_exit EXCEPT ![h] = "none"]
    /\ h_pc' = [h_pc EXCEPT ![h] = "idle"]
    /\ UNCHANGED <<engine_active_count, h_requests, apiVars, nonPoolVars>>

\* the steps of a holder that the event loop and the worker threads take
\* once the request is under way
HolderStep(h) ==
    \/ StreamYield(h)
    \/ StreamResume(h)
    \/ StreamAbandon(h)
    \/ StreamFinalize(h)
    \/ StreamReturn(h)
    \/ StreamRaise(h)
    \/ StreamCancel(h)
    \/ OneShotReturn(h)
    \/ OneShotRaise(h)

NextPool ==
    \E h \in Holders :
        \/ StreamSelect(h)
        \/ OneShotSelect(h)
        \/ HolderStep(h)
        \/ HolderIdle(h)

(***************************************************************************)
(* Engine pool under arbitrary calls of its two methods.                    *)
(***************************************************************************)
\* a call of _select_engine
ApiSelect ==
    /\ pool_calls < MaxCalls
    /\ pool_calls' = pool_calls + 1
    /\ LET i == select_engine(engine_active_count)
       IN /\ engine_active_count' = [engine_active_count EXCEPT ![i] = @ + 1]
          /\ pool_last' = [op |-> "select", index |-> i,
                           before |-> engine_active_count[i]]
    /\ UNCHANGED <<holderVars, nonPoolVars>>

\* a call of _release_engine with any index
ApiRelease(index) ==
    /\ pool_calls < MaxCalls
    /\ pool_calls' = pool_calls + 1
    /\ engine_active_count' = release_engine(engine_active_count, index)
    /\ pool_last' = [op |-> "release", index |-> index,
                     before |-> IF index \in Engines
                                THEN engine_active_count[index] ELSE 0]
    /\ UNCHANGED <<holderVars, nonPoolVars>>

NextPoolApi ==
    \/ ApiSelect
    \/ \E index \in (-1)..NumEngines : ApiRelease(index)

(***************************************************************************)
(* A TTS WebSocket session on the engine pool: each accepted RunSynthesis   *)
(* iterates _synthesize_streaming_audio, which selects a replica and        *)
(* releases it in its finally block; one-shot requests run beside it.       *)
(***************************************************************************)
InitSessVars ==
    /\ sess_pc = "recv"
    /\ sess_engine = NoEngine
    /\ sess_used = <<>>
    /\ sess_releases = 0

sessOthers == <<cfg, asrVars, ttsVars, holderVars, apiVars, asyncVars, genVars,
                envVars>>

\* RunSynthesis is accepted: _run_synthesis starts the stream, which calls
\* tts_engine._select_engine()
SessRunSynthesis ==
    /\ sess_pc = "recv"
    /\ Len(sess_used) < MaxRuns
    /\ LET i == select_engine(engine_active_count)
       IN /\ engine_active_count' = [engine_active_count EXCEPT ![i] = @ + 1]
          /\ sess_engine' = i
          /\ sess_used' = Append(sess_used, i)
    /\ sess_pc' = "stream"
    /\ UNCHANGED <<sess_releases, sessOthers>>

\* the stream of the run is over (exhausted, raised, or closed after the
\* consumer left): finally: _release_engine(engine_index)
SessStreamOver ==
    /\ sess_pc = "stream"
    /\ engine_active_count' = release_engine(engine_active_count, sess_engine)
    /\ sess_engine' = NoEngine
    /\ sess_releases' = sess_releases + 1
    /\ sess_pc' = "recv"
    /\ UNCHANGED <<sess_used, sessOthers>>

\* StopSynthesis or a disconnect ends the session: the handler returns, the
\* pool is not touched
SessClose ==
    /\ sess_pc = "recv"
    /\ sess_pc' = "closed"
    /\ UNCHANGED <<engine_active_count, sess_engine, sess_used, sess_releases,
                   sessOthers>>

NextTTSPool ==
    \/ SessRunSynthesis
    \/ SessStreamOver
    \/ SessClose
    \/ \E h \in Holders :
         \/ OneShotSelect(h)
         \/ OneShotReturn(h)
         \/ OneShotRaise(h)
         \/ HolderIdle(h)

(***************************************************************************)
(* Async TTS: the task store (app/core/database.py), the submit and query   *)
(* endpoints and the background worker of each server process               *)
(* (app/api/v1/async_tts.py).  The store is one SQLite file shared by the   *)
(* server processes; each process starts its own worker thread.             *)
(***************************************************************************)
Tasks == 1..MaxTasks
Processes == 1..NumProcesses

\* str(e) of the exceptions the processing of a task may raise
ExcMessages == {"e1"}

SUCCESS_CODE == 20000000
ERROR_CODE == 50000000
\* the time zones a server runs in (hours east of UTC) and the stretches of
\* time that pass between two steps
UtcOffsets == {0, 8}
ElapsedHours == {164}

PendingLimit == 5

\* None for audio_address and for sentences
NoAudio == [pid |-> 0, timestamp |-> 0]
NoSentences == <<>>

NoRow == [status |-> "NONE", error_code |-> 0, error_message |-> "",
          enable_notify |-> FALSE, audio_address |-> NoAudio,
          sentences |-> NoSentences, created_at |-> 0]

\* the notify_url column: the URL of the request when enable_notify, else None
notify_url(row) == IF row.enable_notify THEN "http://hook" ELSE ""

\* synthesize_speech of process p for task t (enable_subtitle, the default):
\* the path made by generate_temp_audio_path, which carries the time and the
\* pid, and the sentence timestamps
synthesize_speech(p, t) ==
    [output_path |-> [pid |-> p, timestamp |-> t],
     sentences |-> <<[text |-> t, begin_time |-> 0, end_time |-> 1]>>]

\* uuid.uuid4(): a value that no other call returns; a call is named by the
\* response it is made for
uuid4(response, p, t) == [response |-> response, pid |-> p, task |-> t]

\* create_task: INSERT with status 'RUNNING', error_message 'RUNNING' and the
\* column default of error_code
create_task(enable_notify, created_at) ==
    [status |-> "RUNNING", error_code |-> SUCCESS_CODE,
     error_message |-> "RUNNING", enable_notify |-> enable_notify,
     audio_address |-> NoAudio, sentences |-> NoSentences,
     created_at |-> created_at]

\* SQLite's CURRENT_TIMESTAMP, the default of created_at: the time in UTC
CURRENT_TIMESTAMP == clock

\* datetime.now(): the local time of the server, without a time zone
datetime_now == clock + utc_offset

\* a row deleted from the table; a worker that polled the row before still
\* holds its copy of the task, of which enable_notify is read later
DeletedRow(row) == [NoRow EXCEPT !.enable_notify = row.enable_notify]

\* cleanup_old_tasks: DELETE ... WHERE created_at < ? AND status IN
\* ('SUCCESS', 'FAILED'), with cutoff_date = datetime.now() - timedelta(days)
cleanup_days == 7
cleanup_old_tasks(rows, days) ==
    LET cutoff_date == datetime_now - days * 24
    IN [t \in Tasks |->
          IF rows[t].status \in {"SUCCESS", "FAILED"}
             /\ rows[t].created_at < cutoff_date
          THEN DeletedRow(rows[t]) ELSE rows[t]]

\* the rows a call of cleanup_old_tasks deletes, as they were
NotReaped == [status |-> "NONE", age |-> 0]
Reaped(rows, days) ==
    [t \in Tasks |->
       IF rows[t].status # "NONE" /\ cleanup_old_tasks(rows, days)[t].status = "NONE"
       THEN [status |-> rows[t].status, age |-> clock - rows[t].created_at]
       ELSE reaped[t]]

\* update_task_status: UPDATE ... SET status, error_code, error_message, and
\* audio_address and sentences when they are given
\* WHERE task_id = ?; the stored status is not looked at
update_task_status(rows, task_id, status, audio_address, sentences, error_code, error_message) ==
    IF rows[task_id].status = "NONE"
    THEN rows
    ELSE [rows EXCEPT ![task_id] =
            [@ EXCEPT !.status = status,
                      !.error_code = error_code,
                      !.error_message = error_message,
                      !.audio_address = IF audio_address # NoAudio
                                        THEN audio_address ELSE @,
                      !.sentences = IF sentences # NoSentences
                                    THEN sentences ELSE @]]

\* the arguments of the update made in the except branch of a task
FailedUpdate_NoMessage(rows, task_id, e) ==
    update_task_status(rows, task_id, "FAILED", NoAudio, NoSentences,
                       ERROR_CODE, "FAILED")
FailedUpdate(rows, task_id, e) ==
    update_task_status(rows, task_id, "FAILED", NoAudio, NoSentences,
                       ERROR_CODE, e)

\* SELECT ... WHERE status = 'RUNNING' ORDER BY created_at ASC
RunningTasks(rows) ==
    SelectSeq([t \in 1..MaxTasks |-> t], LAMBDA t : rows[t].status = "RUNNING")

\* get_pending_tasks: ... LIMIT ?
get_pending_tasks_SkipFirst(rows, limit) ==
    LET r == IF RunningTasks(rows) = <<>> THEN <<>> ELSE Tail(RunningTasks(rows))
    IN SubSeq(r, 1, IF Len(r) < limit THEN Len(r) ELSE limit)
get_pending_tasks(rows, limit) ==
    LET r == RunningTasks(rows)
    IN SubSeq(r, 1, IF Len(r) < limit THEN Len(r) ELSE limit)

\* the response envelope and its data, as model_dump() gives them
AsyncTTSTaskData(task_id, audio_address, notify_custom, sentences) ==
    [task_id |-> task_id, audio_address |-> audio_address,
     notify_custom |-> notify_custom, sentences |-> sentences]
AsyncTTSResponse(status, error_code, error_message, request_id, data) ==
    [status |-> status, error_code |-> error_code,
     error_message |-> error_message, request_id |-> request_id, data |-> data]

NoBody == AsyncTTSResponse(0, 0, "", uuid4("", 0, 0),
                           AsyncTTSTaskData(0, NoAudio, "", NoSentences))

\* the request_id of a GET served by process p
GetRequestIds(t) == { uuid4("get", p, t) : p \in Processes }

InitAsyncVars ==
    /\ task_rows = [t \in Tasks |-> NoRow]
    /\ task_count = 0
    /\ w_pc = [p \in Processes |-> "off"]
    /\ pending_tasks = [p \in Processes |-> <<>>]
    /\ w_exc = [p \in Processes |-> ""]
    /\ posts = [t \in Tasks |-> 0]
    /\ callbacks = [t \in Tasks |-> NoBody]
    /\ clock = 0
    /\ worker_threads = [p \in Processes |-> 0]
    /\ reaped = [t \in Tasks |-> NotReaped]

\* _start_background_worker: one worker thread per process
\* (with _worker_lock: if not _background_worker_started)
StartsWorker_Always(p) == TRUE
StartsWorker(p) == w_pc[p] = "off"

start_background_worker(p) ==
    /\ w_pc' = IF StartsWorker(p) THEN [w_pc EXCEPT ![p] = "poll"] ELSE w_pc
    /\ worker_threads' = IF StartsWorker(p)
                         THEN [worker_threads EXCEPT ![p] = @ + 1]
                         ELSE worker_threads

\* POST /async served by process p, request accepted: the row is created
AsyncSubmit(p, enable_notify) ==
    /\ task_count < MaxTasks
    /\ start_background_worker(p)
    /\ task_count' = task_count + 1
    /\ task_rows' = [task_rows EXCEPT ![task_count + 1] =
                        create_task(enable_notify, CURRENT_TIMESTAMP)]
    /\ UNCHANGED <<pending_tasks, w_exc, posts, callbacks, timeVars, reaped,
                   nonAsyncVars>>

\* POST /async served by process p, request refused by the validation (or
\* create_task failed): no row
AsyncSubmitRefused(p) ==
    /\ w_pc[p] = "off"
    /\ start_background_worker(p)
    /\ UNCHANGED <<task_rows, task_count, pending_tasks, w_exc, posts, callbacks,
                   timeVars, reaped, nonAsyncVars>>

\* get_async_tts_result: the response to GET /async for a stored task carries
\* the row's error_code and error_message
get_async_tts_result(rows, task_id, request_id) ==
    AsyncTTSResponse(200, rows[task_id].error_code, rows[task_id].error_message,
                     request_id,
                     AsyncTTSTaskData(task_id, rows[task_id].audio_address,
                                      notify_url(rows[task_id]),
                                      IF rows[task_id].status = "SUCCESS"
                                      THEN rows[task_id].sentences
                                      ELSE NoSentences))

\* GET /async for a stored task: the handler reads the row and writes nothing
AsyncGet(t) ==
    /\ task_rows[t].status # "NONE"
    /\ \A r \in GetRequestIds(t) : get_async_tts_result(task_rows, t, r).status = 200
    /\ UNCHANGED <<asyncVars, nonAsyncVars>>

\* the task the worker of p is at: for task in pending_tasks
CurrentTask(p) == Head(pending_tasks[p])

\* the table after the iteration of a task: after the last task of the batch
\* the worker calls db_manager.cleanup_old_tasks()
AfterTask(p, rows) ==
    IF Tail(pending_tasks[p]) = <<>> THEN cleanup_old_tasks(rows, cleanup_days)
    ELSE rows
ReapedAfterTask(p, rows) ==
    IF Tail(pending_tasks[p]) = <<>> THEN Reaped(rows, cleanup_days) ELSE reaped

\* the for loop moves to the next task; after the last one the worker
\* sleeps and polls again
WorkerAdvance(p) ==
    /\ pending_tasks' = [pending_tasks EXCEPT ![p] = Tail(@)]
    /\ w_pc' = [w_pc EXCEPT ![p] = IF Tail(pending_tasks[p]) = <<>>
                                   THEN "poll" ELSE "task"]

\* pending_tasks = db_manager.get_pending_tasks(limit=5)
WorkerPoll(p) ==
    /\ w_pc[p] = "poll"
    /\ LET batch == get_pending_tasks(task_rows, PendingLimit)
       IN /\ pending_tasks' = [pending_tasks EXCEPT ![p] = batch]
          /\ w_pc' = [w_pc EXCEPT ![p] = IF batch = <<>> THEN "poll" ELSE "task"]
          /\ task_rows' = IF batch = <<>>
                          THEN cleanup_old_tasks(task_rows, cleanup_days)
                          ELSE task_rows
          /\ reaped' = IF batch = <<>> THEN Reaped(task_rows, cleanup_days)
                       ELSE reaped
    /\ UNCHANGED <<task_count, w_exc, posts, callbacks, timeVars, worker_threads,
                   nonAsyncVars>>

\* synthesize_speech returns: update_task_status(task_id, 'SUCCESS', ...)
WorkerSynthesized(p) ==
    /\ w_pc[p] = "task"
    /\ LET rows == update_task_status(task_rows, CurrentTask(p), "SUCCESS",
                                      synthesize_speech(p, CurrentTask(p)).output_path,
                                      synthesize_speech(p, CurrentTask(p)).sentences,
                                      SUCCESS_CODE, "SUCCESS")
       IN IF task_rows[CurrentTask(p)].enable_notify
          THEN /\ w_pc' = [w_pc EXCEPT ![p] = "notify"]
               /\ task_rows' = rows
               /\ UNCHANGED <<pending_tasks, reaped>>
          ELSE /\ WorkerAdvance(p)
               /\ task_rows' = AfterTask(p, rows)
               /\ reaped' = ReapedAfterTask(p, rows)
    /\ UNCHANGED <<task_count, w_exc, posts, callbacks, timeVars, worker_threads,
                   nonAsyncVars>>

\* get_tts_engine, clean_text_for_tts or synthesize_speech raises
WorkerSynthesisRaises(p, e) ==
    /\ w_pc[p] = "task"
    /\ w_exc' = [w_exc EXCEPT ![p] = e]
    /\ w_pc' = [w_pc EXCEPT ![p] = "except"]
    /\ UNCHANGED <<task_rows, task_count, pending_tasks, posts, callbacks,
                   timeVars, worker_threads, reaped, nonAsyncVars>>

\* success_response of the worker of p: built from the locals of the task's
\* iteration (task is the row as it was polled) and a request_id of its own
success_response(p, t, task) ==
    AsyncTTSResponse(200, SUCCESS_CODE, "SUCCESS", uuid4("notify", p, t),
                     AsyncTTSTaskData(t, synthesize_speech(p, t).output_path,
                                      notify_url(task),
                                      synthesize_speech(p, t).sentences))

\* the success callback: _send_notify_sync posts once and swallows a failed
\* delivery
WorkerNotify(p) ==
    /\ w_pc[p] = "notify"
    /\ posts' = [posts EXCEPT ![CurrentTask(p)] = @ + 1]
    /\ callbacks' = [callbacks EXCEPT ![CurrentTask(p)] =
                        success_response(p, CurrentTask(p),
                                         task_rows[CurrentTask(p)])]
    /\ WorkerAdvance(p)
    /\ task_rows' = AfterTask(p, task_rows)
    /\ reaped' = ReapedAfterTask(p, task_rows)
    /\ UNCHANGED <<task_count, w_exc, timeVars, worker_threads, nonAsyncVars>>

\* building the success envelope (AsyncTTSResponse, model_dump) raises: the
\* statement is inside the try of the task
WorkerNotifyRaises(p, e) ==
    /\ w_pc[p] = "notify"
    /\ w_exc' = [w_exc EXCEPT ![p] = e]
    /\ w_pc' = [w_pc EXCEPT ![p] = "except"]
    /\ UNCHANGED <<task_rows, task_count, pending_tasks, posts, callbacks,
                   timeVars, worker_threads, reaped, nonAsyncVars>>

\* except Exception as e: update_task_status(task_id, 'FAILED', 50000000,
\* str(e)), then the failure callback
WorkerExcept(p) ==
    /\ w_pc[p] = "except"
    /\ task_rows' = AfterTask(p, FailedUpdate(task_rows, CurrentTask(p), w_exc[p]))
    /\ reaped' = ReapedAfterTask(p, FailedUpdate(task_rows, CurrentTask(p), w_exc[p]))
    /\ posts' = IF task_rows[CurrentTask(p)].enable_notify
                THEN [posts EXCEPT ![CurrentTask(p)] = @ + 1]
                ELSE posts
    /\ w_exc' = [w_exc EXCEPT ![p] = ""]
    /\ WorkerAdvance(p)
    /\ UNCHANGED <<task_count, callbacks, timeVars, worker_threads, nonAsyncVars>>

WorkerStep(p) ==
    \/ WorkerPoll(p)
    \/ WorkerSynthesized(p)
    \/ \E e \in ExcMessages : WorkerSynthesisRaises(p, e)
    \/ WorkerNotify(p)
    \/ \E e \in ExcMessages : WorkerNotifyRaises(p, e)
    \/ WorkerExcept(p)

NextAsync ==
    \/ \E p \in Processes, enable_notify \in BOOLEAN : AsyncSubmit(p, enable_notify)
    \/ \E p \in Processes : AsyncSubmitRefused(p)
    \/ \E t \in Tasks : AsyncGet(t)
    \/ \E p \in Processes : WorkerStep(p)

\* time passes while the server runs
TimePasses(hours) ==
    /\ clock + hours <= MaxClock
    /\ clock' = clock + hours
    /\ UNCHANGED <<task_rows, task_count, workerVars, posts, callbacks, utc_offset,
                   worker_threads, reaped, nonAsyncVars>>

\* the async TTS subsystem over days, in a server of any time zone
NextReap ==
    \/ NextAsync
    \/ \E hours \in ElapsedHours : TimePasses(hours)

(***************************************************************************)
(* run_sync_generator (app/core/executor.py): the engine's blocking stream  *)
(* generator runs in an executor thread (producer) and hands its items      *)
(* through a queue to the async consumer, here the chain                    *)
(* _stream_preset_voice_with_engine -> _synthesize_streaming_audio ->       *)
(* _run_synthesis of the TTS session.                                       *)
(***************************************************************************)
\* what travels through the queue: the n-th item of the stream, the exception
\* caught by the producer, the sentinel
QueueItem(n) == [kind |-> "item", n |-> n]
QueueException == [kind |-> "exception", n |-> 0]
SENTINEL == [kind |-> "SENTINEL", n |-> 0]

InitGenVars ==
    /\ future = "PENDING"
    /\ queue = <<>>
    /\ gen_made = 0
    /\ gen_raised = FALSE
    /\ gen_got = <<>>
    /\ gen_cons = "waiting"
    /\ gen_ws = "CONNECTED"
    /\ gen_sent = 0
    /\ gen_closed_at = -1

\* future.cancel(): only a future that has not started can be cancelled
future_cancel(f) == IF f = "PENDING" THEN "CANCELLED" ELSE f

\* the finally block of run_sync_generator
GenFinally == future' = IF future = "FINISHED" THEN future ELSE future_cancel(future)

\* an executor thread takes the producer
ProducerStart ==
    /\ future = "PENDING"
    /\ future' = "RUNNING"
    /\ UNCHANGED <<queue, gen_made, gen_raised, gen_got, gen_cons, gen_ws, gen_sent, gen_closed_at,
                   nonGenVars>>

\* for item in gen: loop.call_soon_threadsafe(queue.put_nowait, item)
ProducerYield ==
    /\ future = "RUNNING"
    /\ gen_made < MaxItems
    /\ gen_made' = gen_made + 1
    /\ queue' = Append(queue, QueueItem(gen_made + 1))
    /\ UNCHANGED <<future, gen_raised, gen_got, gen_cons, gen_ws, gen_sent, gen_closed_at, nonGenVars>>

\* the generator is exhausted: finally puts the sentinel
ProducerReturn ==
    /\ future = "RUNNING"
    /\ queue' = Append(queue, SENTINEL)
    /\ future' = "FINISHED"
    /\ UNCHANGED <<gen_made, gen_raised, gen_got, gen_cons, gen_ws, gen_sent, gen_closed_at, nonGenVars>>

\* except BaseException as e puts e, finally puts the sentinel
ExceptionItems_SentinelFirst == <<SENTINEL, QueueException>>
ExceptionItems == <<QueueException, SENTINEL>>

\* the generator raises: the exception, then the sentinel
ProducerRaise ==
    /\ future = "RUNNING"
    /\ queue' = queue \o ExceptionItems
    /\ gen_raised' = TRUE
    /\ future' = "FINISHED"
    /\ UNCHANGED <<gen_made, gen_got, gen_cons, gen_ws, gen_sent, gen_closed_at, nonGenVars>>

\* item = await queue.get() gives an item, which travels up to _run_synthesis:
\* with the client connected the frame is sent; with the client gone the
\* consumer returns (client_state checked) or send_bytes raises, and the
\* generators are closed, which runs the finally block
ConsumerItem ==
    /\ gen_cons = "waiting"
    /\ queue # <<>> /\ Head(queue).kind = "item"
    /\ queue' = Tail(queue)
    /\ gen_got' = Append(gen_got, Head(queue).n)
    /\ IF gen_ws = "CONNECTED"
       THEN /\ gen_sent' = gen_sent + 1
            /\ UNCHANGED <<future, gen_cons, gen_closed_at>>
       ELSE /\ gen_cons' = "closed"
            /\ gen_closed_at' = gen_made
            /\ GenFinally
            /\ UNCHANGED gen_sent
    /\ UNCHANGED <<gen_made, gen_raised, gen_ws, nonGenVars>>

\* item is _SENTINEL: break, finally
ConsumerSentinel ==
    /\ gen_cons = "waiting"
    /\ queue # <<>> /\ Head(queue) = SENTINEL
    /\ queue' = Tail(queue)
    /\ gen_cons' = "done"
    /\ GenFinally
    /\ UNCHANGED <<gen_made, gen_raised, gen_got, gen_ws, gen_sent, gen_closed_at, nonGenVars>>

\* item is an exception: raise item, finally
ConsumerException ==
    /\ gen_cons = "waiting"
    /\ queue # <<>> /\ Head(queue) = QueueException
    /\ queue' = Tail(queue)
    /\ gen_cons' = "raised"
    /\ GenFinally
    /\ UNCHANGED <<gen_made, gen_raised, gen_got, gen_ws, gen_sent, gen_closed_at, nonGenVars>>

\* the task of the session is cancelled while it waits in queue.get():
\* CancelledError is raised there, finally
ConsumerCancelled ==
    /\ gen_cons = "waiting"
    /\ gen_cons' = "closed"
    /\ gen_closed_at' = gen_made
    /\ GenFinally
    /\ UNCHANGED <<queue, gen_made, gen_raised, gen_got, gen_ws, gen_sent, nonGenVars>>

\* the client goes away
GenClientDisconnect ==
    /\ gen_ws = "CONNECTED"
    /\ gen_cons = "waiting"
    /\ gen_ws' = "DISCONNECTED"
    /\ UNCHANGED <<future, queue, gen_made, gen_raised, gen_got, gen_cons, gen_sent, gen_closed_at,
                   nonGenVars>>

NextGen ==
    \/ ProducerStart
    \/ ProducerYield
    \/ ProducerReturn
    \/ ProducerRaise
    \/ ConsumerItem
    \/ ConsumerSentinel
    \/ ConsumerException
    \/ ConsumerCancelled
    \/ GenClientDisconnect

(***************************************************************************)
(* HTTP endpoints: the response to a request whose handling raises          *)
(* (app/core/exceptions.py, app/api/v1/asr.py, tts.py, async_tts.py).       *)
(***************************************************************************)
\* the exceptions raised while a request is handled: the classes of
\* exceptions.py with their status_code, and any other exception
Exc(class, base, status_code) == [class |-> class, base |-> base, status_code |-> status_code]
AuthenticationException == Exc("AuthenticationException", "ASRException", 40000001)
InvalidMessageException == Exc("InvalidMessageException", "ASRException", 40000002)
InvalidParameterException == Exc("InvalidParameterException", "ASRException", 40000003)
UnsupportedSampleRateException == Exc("UnsupportedSampleRateException", "ASRException", 41010101)
OtherException == Exc("Exception", "Exception", 0)

\* status_code of JSONResponse when the call does not give one
JSONResponseDefault == 200

HttpResponse(endpoint, e, status, http) == [endpoint |-> endpoint, exc |-> e.class, status |-> status, http |-> http]

\* app.add_exception_handler(APIException, api_exception_handler) and
\* (Exception, general_exception_handler): exceptions that leave an endpoint
api_exception_handler(endpoint, e) ==
    HttpResponse(endpoint, e, e.status_code, IF e.status_code >= 40000000 THEN 400 ELSE 500)
general_exception_handler(endpoint, e) == HttpResponse(endpoint, e, 50000000, 500)
exception_handler(endpoint, e) ==
    IF e.base = "Exception" THEN general_exception_handler(endpoint, e)
    ELSE api_exception_handler(endpoint, e)

\* asr_transcribe: except ASRException / except Exception
asr_transcribe(e) ==
    IF e.base = "ASRException"
    THEN HttpResponse("/stream/v1/asr", e, e.status_code, JSONResponseDefault)
    ELSE HttpResponse("/stream/v1/asr", e, 50000000, JSONResponseDefault)

\* synthesize_speech: except (InvalidParameterException, ..., AuthenticationException,
\* UnsupportedSampleRateException) / except Exception
tts_synthesize_speech(e) ==
    IF e.class \in {"InvalidParameterException", "AuthenticationException",
                    "UnsupportedSampleRateException"}
    THEN HttpResponse("/stream/v1/tts", e, e.status_code, JSONResponseDefault)
    ELSE HttpResponse("/stream/v1/tts", e, 50000000, JSONResponseDefault)

\* submit_async_tts: AsyncTTSErrorResponse with status 400 for
\* InvalidParameterException and AuthenticationException / except Exception
submit_async_tts(e) ==
    IF e.class \in {"InvalidParameterException", "AuthenticationException"}
    THEN HttpResponse("/rest/v1/tts/async", e, e.status_code, 400)
    ELSE HttpResponse("/rest/v1/tts/async", e, 50000000, 500)

\* the requests that fail, by endpoint: the exceptions raised inside the try
\* of the endpoint, and those raised outside of one (get_asr_params, the
\* token check of get_voice_list)
FailingRequests ==
    { asr_transcribe(e) : e \in {InvalidParameterException, InvalidMessageException,
                                 OtherException} }
    \cup { tts_synthesize_speech(e) : e \in {AuthenticationException,
              InvalidParameterException, UnsupportedSampleRateException,
              OtherException} }
    \cup { submit_async_tts(e) : e \in {AuthenticationException,
              InvalidParameterException, OtherException} }
    \cup { exception_handler("get_asr_params", InvalidParameterException),
           exception_handler("/stream/v1/tts/voices", AuthenticationException) }

\* a request fails and its error response is returned
HttpRequestFails(response) ==
    /\ Len(http_out) < MaxHttpRequests
    /\ http_out' = Append(http_out, response)
    /\ UNCHANGED <<cfg, asrVars, ttsVars, poolVars, sessVars, asyncVars, genVars,
                   ws_handshake, singVars>>

NextHttp == \E response \in FailingRequests : HttpRequestFails(response)

(***************************************************************************)
(* The lazy global singletons: get_global_vad_model, get_global_punc_model, *)
(* get_global_punc_realtime_model (app/services/asr/engine.py),             *)
(* get_tts_engine (app/services/tts/engine.py) and get_executor             *)
(* (app/core/executor.py).  The first four are called from any thread (the  *)
(* event loop, the executor's workers, the async TTS worker thread);        *)
(* get_executor is called by run_sync and run_sync_generator only, which    *)
(* are coroutines of the event loop.                                        *)
(***************************************************************************)
nonSingVars == <<cfg, asrVars, ttsVars, poolVars, sessVars, asyncVars, genVars,
                 ws_handshake, http_out>>

\* threading.Lock: acquire blocks while another thread holds the lock
LockFree_NoLock(g) == TRUE
LockFree(g) == singleton[g].lock = 0

\* "with <lock>:" is entered
GetterAcquire(t, g) ==
    /\ getter_call[t].pc = "idle"
    /\ getter_calls < MaxGets
    /\ g \in LockedGetters
    /\ LockFree(g)
    /\ singleton' = [singleton EXCEPT ![g].lock = t]
    /\ getter_call' = [getter_call EXCEPT ![t].pc = "check", ![t].getter = g]
    /\ getter_calls' = getter_calls + 1
    /\ UNCHANGED nonSingVars

\* the lock a getter still holds when it returns: get_tts_engine returns
\* inside the with block, the model getters after it
HeldAtReturn(t, g) == IF g \in ModelGetters THEN 0 ELSE t

\* "if <global> is None:"
GetterCheck(t) ==
    /\ getter_call[t].pc = "check"
    /\ LET g == getter_call[t].getter
       IN IF singleton[g].instance = 0
          THEN /\ getter_call' = [getter_call EXCEPT ![t].pc = "construct"]
               /\ UNCHANGED singleton
          ELSE /\ getter_call' = [getter_call EXCEPT ![t].pc = "return"]
               /\ singleton' = [singleton EXCEPT ![g].lock = HeldAtReturn(t, g)]
    /\ UNCHANGED <<getter_calls, nonSingVars>>

\* "<global> = <constructor>(...)": a new instance is assigned; or the
\* constructor raises, which leaves the global None and the with block
GetterConstruct(t, raises) ==
    /\ getter_call[t].pc = "construct"
    /\ LET g == getter_call[t].getter
       IN IF raises
          THEN /\ singleton' = [singleton EXCEPT ![g].lock = 0]
               /\ getter_call' = [getter_call EXCEPT ![t].pc = "idle",
                                                     ![t].getter = "none"]
          ELSE /\ singleton' = [singleton EXCEPT ![g].instance = singleton[g].made + 1,
                                                 ![g].made = @ + 1,
                                                 ![g].lock = HeldAtReturn(t, g)]
               /\ getter_call' = [getter_call EXCEPT ![t].pc = "return"]
    /\ UNCHANGED <<getter_calls, nonSingVars>>

\* "return <global>"
GetterReturn(t) ==
    /\ getter_call[t].pc = "return"
    /\ LET g == getter_call[t].getter
       IN /\ getter_call' = [getter_call EXCEPT ![t].pc = "idle",
                                                ![t].getter = "none",
                                                ![t].got[g] = singleton[g].instance]
          /\ singleton' = [singleton EXCEPT ![g].lock = IF @ = t THEN 0 ELSE @]
    /\ UNCHANGED <<getter_calls, nonSingVars>>

\* get_executor, called by a coroutine: no await between the test and the
\* assignment, so no other coroutine of the loop runs in between
ExecutorGet(t) ==
    /\ getter_call[t].pc = "idle"
    /\ getter_calls < MaxGets
    /\ LET g == "get_executor"
           made == IF singleton[g].instance = 0
                   THEN singleton[g].made + 1 ELSE singleton[g].made
           instance == IF singleton[g].instance = 0
                       THEN made ELSE singleton[g].instance
       IN /\ singleton' = [singleton EXCEPT ![g].instance = instance,
                                            ![g].made = made]
          /\ getter_call' = [getter_call EXCEPT ![t].got[g] = instance]
    /\ getter_calls' = getter_calls + 1
    /\ UNCHANGED nonSingVars

NextSingletons ==
    \/ \E t \in Callers, g \in LockedGetters : GetterAcquire(t, g)
    \/ \E t \in Callers : GetterCheck(t)
    \/ \E t \in Callers, raises \in BOOLEAN : GetterConstruct(t, raises)
    \/ \E t \in Callers : GetterReturn(t)
    \/ \E t \in Callers : ExecutorGet(t)

(***************************************************************************)
(* Specifications.                                                          *)
(***************************************************************************)
DefaultConfig == CHOOSE c \in Configs : c.ASR_ENABLE_NEARFIELD_FILTER

InitOthers == InitSessVars /\ InitAsyncVars /\ InitGenVars /\ utc_offset = 0
              /\ InitEnvVars
InitReap == /\ cfg = DefaultConfig /\ InitASRVars /\ InitTTSVars /\ InitPoolVars
            /\ InitSessVars /\ InitAsyncVars /\ InitGenVars
            /\ utc_offset \in UtcOffsets /\ InitEnvVars

InitASR == cfg \in Configs /\ InitASRVars /\ InitTTSVars /\ InitPoolVars
           /\ InitOthers
InitTTS == cfg = DefaultConfig /\ InitASRVars /\ InitTTSVars /\ InitPoolVars
           /\ InitOthers
InitPool == cfg = DefaultConfig /\ InitASRVars /\ InitTTSVars /\ InitPoolVars
            /\ InitOthers
InitTTSAuth == /\ cfg = DefaultConfig /\ InitASRVars /\ InitPoolVars
               /\ InitSessVars /\ InitAsyncVars /\ InitGenVars /\ utc_offset = 0
               /\ tts_pc = "auth" /\ InitTTSLocals
               /\ ws_handshake \in Handshakes /\ http_out = <<>> /\ InitSingVars

SpecASR == InitASR /\ [][NextASR]_vars
SpecASRAudio == InitASR /\ [][NextASRAudio]_vars
SpecASRRates == InitASR /\ [][NextASRRates]_vars
SpecASRFrames == InitASR /\ [][NextASRFrames]_vars
SpecTTS == InitTTS /\ [][NextTTS]_vars
SpecTTSAuth == InitTTSAuth /\ [][NextTTSAuth]_vars
SpecPool == InitPool /\ [][NextPool]_vars
SpecPoolApi == InitPool /\ [][NextPoolApi]_vars
SpecTTSPool == InitPool /\ [][NextTTSPool]_vars
SpecAsync == InitPool /\ [][NextAsync]_vars
SpecReap == InitReap /\ [][NextReap]_vars
SpecGen == InitPool /\ [][NextGen]_vars
SpecHttp == InitPool /\ [][NextHttp]_vars
SpecSingletons == InitPool /\ [][NextSingletons]_vars

\* the event loop runs every runnable task, the finaliser of an abandoned
\* generator included, and every engine call comes to an end
FairSpecPool == SpecPool /\ \A h \in Holders : WF_vars(HolderStep(h))

\* every started worker thread keeps running: each synthesis call comes to an
\* end (returns or raises) and the loop polls again after its sleep
FairSpecAsync == SpecAsync /\ \A p \in Processes : WF_vars(WorkerStep(p))

(***************************************************************************)
(* ASR WebSocket session: properties.                                       *)
(***************************************************************************)
Positions(out, name) == {i \in 1..Len(out) : out[i].name = name}
Count(out, name) == Cardinality(Positions(out, name))
AsrSentenceEnds == SelectSeq(asr_out, LAMBDA m : m.name = "SentenceEnd")

\* C1: the index values of the SentenceEnd messages of a session are exactly
\* 1, 2, 3, ... in emission order.
C1_SentenceEndIndices ==
    \A k \in 1..Len(AsrSentenceEnds) : AsrSentenceEnds[k].index = k

\* C1 witness: a session that has sent two SentenceEnd messages, the second
\* one while processing a chunk.
C1_Witness ==
    /\ Len(AsrSentenceEnds) >= 2
    /\ asr_state = "STARTED"

\* C2: when TranscriptionCompleted has been sent, as many SentenceBegin as
\* SentenceEnd messages have been sent.
C2_BeginEndBalanced ==
    Count(asr_out, "TranscriptionCompleted") > 0 =>
        Count(asr_out, "SentenceBegin") = Count(asr_out, "SentenceEnd")

\* C2 witness: a completed session whose last sentence was still active when
\* StopTranscription arrived, after an earlier sentence ended on a chunk.
C2_Witness ==
    /\ asr_state = "COMPLETED"
    /\ sentence_active
    /\ Count(asr_out, "SentenceBegin") >= 2

\* C3: every SentenceEnd with index k is preceded by a SentenceBegin with
\* index k, and no two SentenceBegin messages carry the same index.
C3_EndFollowsBegin ==
    /\ \A i \in Positions(asr_out, "SentenceEnd") :
         \E j \in Positions(asr_out, "SentenceBegin") :
            j < i /\ asr_out[j].index = asr_out[i].index
    /\ \A i, j \in Positions(asr_out, "SentenceBegin") :
         i # j => asr_out[i].index # asr_out[j].index

\* C3 witness: the SentenceEnd of a second sentence has been sent.
C3_Witness ==
    \E i \in Positions(asr_out, "SentenceEnd") : asr_out[i].index = 2

\* C4: a TaskFailed caused by a protocol or validation error (wrong namespace,
\* invalid state, invalid Start parameters, task_id mismatch, unparsable JSON,
\* unknown message name) is terminal: no message is sent after it.
C4_ProtocolErrorTerminal ==
    \A i \in Positions(asr_out, "TaskFailed") :
        asr_out[i].cause \in {"protocol", "exception"} => i = Len(asr_out)

\* C5: a TaskFailed caused by a failure of audio processing closes the
\* session: no later audio is processed, so no result message follows it.
C5_ProcessingErrorTerminal ==
    \A i \in Positions(asr_out, "TaskFailed") :
        asr_out[i].cause = "processing" =>
            \A j \in (i + 1)..Len(asr_out) :
                asr_out[j].name \notin {"SentenceBegin", "TranscriptionResultChanged",
                                        "SentenceEnd", "TranscriptionCompleted"}

(***************************************************************************)
(* TTS WebSocket session: properties.                                       *)
(***************************************************************************)
TtsSentenceMarks ==
    SelectSeq(tts_out, LAMBDA m : m.name \in {"SentenceBegin", "SentenceEnd"})

\* C6 as stated: every accepted RunSynthesis gives one SentenceBegin and one
\* SentenceEnd before the next client message is processed, so whenever the
\* handler is not inside a synthesis the two counts are equal.
C6_BeginEndPaired ==
    tts_pc # "stream" =>
        Count(tts_out, "SentenceBegin") = Count(tts_out, "SentenceEnd")

\* C6 amended: every accepted RunSynthesis gives exactly one SentenceBegin
\* and, before the next client message is processed, at most one SentenceEnd
\* after it; the SentenceEnd is sent exactly when the synthesis stream ends
\* without an exception and without a client disconnect, so outside a
\* synthesis #SentenceBegin = #SentenceEnd + #runs that failed or were cut.
C6_BeginThenAtMostOneEnd ==
    /\ Count(tts_out, "SentenceBegin") = tts_runs
    /\ \A k \in 1..Len(TtsSentenceMarks) :
         TtsSentenceMarks[k].name = "SentenceEnd" =>
            k > 1 /\ TtsSentenceMarks[k - 1].name = "SentenceBegin"
    /\ Count(tts_out, "SentenceBegin") =
         Count(tts_out, "SentenceEnd") + tts_cut
         + (IF tts_pc = "stream" THEN 1 ELSE 0)

\* C6 witness: a session with a synthesis that ended with SentenceEnd and a
\* later one that failed, back in the receive loop.
C6_Witness ==
    /\ tts_pc = "recv"
    /\ Count(tts_out, "SentenceEnd") >= 1
    /\ tts_cut >= 1
    /\ tts_runs >= 2

\* C7: after the TaskFailed of a failed synthesis the session is closed: no
\* RunSynthesis or StopSynthesis is processed, so nothing is sent after it.
C7_SynthesisFailureTerminal ==
    \A i \in Positions(tts_out, "TaskFailed") :
        tts_out[i].cause = "synthesis" => i = Len(tts_out)

(***************************************************************************)
(* Engine pool: properties.                                                 *)
(***************************************************************************)
Holding(h) == h_pc[h] \in {"running", "suspended", "abandoned", "call"}
Finished(h) == h_pc[h] \in {"idle", "done"}

\* C8: under any sequence of select and release calls, a repeated release, a
\* release without a select and a release of an index out of range included,
\* every active count is >= 0.
C8_ActiveCountNonNegative ==
    \A i \in Engines : engine_active_count[i] >= 0

\* C8 witness: the last call released an index in range whose count was
\* already 0.
C8_Witness ==
    /\ pool_last.op = "release"
    /\ pool_last.index \in Engines
    /\ pool_last.before = 0

C10_SelectThenOneRelease ==
    /\ [](\A h \in Holders : h_releases[h] <= 1)
    /\ [](\A i \in Engines :
            engine_active_count[i] =
                Cardinality({h \in Holders : Holding(h) /\ engine_index[h] = i}))
    /\ \A h \in Holders :
         Holding(h) ~> (h_pc[h] = "done" /\ h_releases[h] = 1)

\* C10 witness: a stream whose consumer left it in the middle has been
\* finalised and has released its replica once.
C10_Witness ==
    \E h \in Holders :
        /\ h_pc[h] = "done"
        /\ h_exit[h] = "abandon"
        /\ h_releases[h] = 1
        /\ engine_active_count[engine_index[h]] = 0

(***************************************************************************)
(* Session affinity: properties.                                            *)
(***************************************************************************)
\* C11: every inference call made for a streaming session runs on the one
\* replica selected at connect: the replica used by the session never changes.
C11_SessionAffinity ==
    \A i, j \in 1..Len(sess_used) : sess_used[i] = sess_used[j]

\* C20: when the session has completed on StopTranscription, no received audio
\* is left in the PCM buffer: what was buffered went through a final model
\* call before TranscriptionCompleted.
C20_StopDrainsBuffer ==
    asr_state = "COMPLETED" => SamplesLen(audio_buffer) = 0

\* C21: the state of an ASR session only steps READY -> STARTED -> COMPLETED;
\* TranscriptionStarted and TranscriptionCompleted are each sent at most once;
\* and once the state is COMPLETED no frame is received and nothing is sent:
\* TranscriptionCompleted stays the last message.
C21_StateAdvances ==
    /\ [][/\ asr_state' # asr_state
             => <<asr_state, asr_state'>> \in {<<"READY", "STARTED">>,
                                               <<"STARTED", "COMPLETED">>}
          /\ asr_state = "COMPLETED"
             => (asr_in' = asr_in /\ asr_audio_in' = asr_audio_in
                 /\ asr_out' = asr_out)]_vars
    /\ [](/\ Count(asr_out, "TranscriptionStarted") <= 1
          /\ Count(asr_out, "TranscriptionCompleted") <= 1
          /\ asr_state = "COMPLETED"
             => asr_out[Len(asr_out)].name = "TranscriptionCompleted"
          /\ Count(asr_out, "TranscriptionStarted") = 1 <=> asr_state # "READY"
          /\ Count(asr_out, "TranscriptionCompleted") = 1 <=> asr_state = "COMPLETED")

\* a session that went through the three states and ended a sentence
C21_Witness ==
    /\ asr_state = "COMPLETED"
    /\ asr_pc = "closed"
    /\ Count(asr_out, "TranscriptionStarted") = 1
    /\ Count(asr_out, "SentenceEnd") >= 1
    /\ Count(asr_out, "TranscriptionCompleted") = 1

\* a text without its punctuation marks
StripPunct(text) == SelectSeq(text, LAMBDA t : t \notin {",", "."})

IsPrefix(a, b) == Len(a) <= Len(b) /\ SubSeq(b, 1, Len(a)) = a

\* the sentence begun last has got its SentenceEnd
AsrSentenceClosed ==
    LET marks == Positions(asr_out, "SentenceBegin") \cup Positions(asr_out, "SentenceEnd")
    IN /\ marks # {}
       /\ asr_out[CHOOSE i \in marks : \A j \in marks : j <= i].name = "SentenceEnd"

\* C23: when a sentence has got its SentenceEnd, every intermediate result that
\* was sent for it is, punctuation aside, a prefix of the result of the
\* SentenceEnd.
C23_ShownPrefixOfFinal ==
    AsrSentenceClosed
    => \A i \in 1..Len(asr_shown) :
          IsPrefix(StripPunct(asr_shown[i]), StripPunct(asr_final))

\* C24: within one sentence every TranscriptionResultChanged result has the
\* result of the one before it as a prefix.
C24_ShownGrowsByPrefix ==
    \A i \in 1..(Len(asr_shown) - 1) : IsPrefix(asr_shown[i], asr_shown[i + 1])

C24_Witness ==
    /\ Len(asr_shown) = 2
    /\ Len(asr_shown[2]) > Len(asr_shown[1])
    /\ sentence_active

\* a step of the chunk loop that detaches a chunk while no sentence is active,
\* the filter is enabled and the chunk's RMS is below the threshold
AsrQuietIdleChunk ==
    /\ cfg.ASR_ENABLE_NEARFIELD_FILTER
    /\ asr_pc = "chunks"
    /\ audio_buffer' # audio_buffer
    /\ ~sentence_active
    /\ filter_rms' < ASR_NEARFIELD_RMS_THRESHOLD

\* a step that sends a SentenceBegin
AsrSentenceBeginSent ==
    Positions(asr_out', "SentenceBegin") # Positions(asr_out, "SentenceBegin")

\* C25: with the nearfield filter enabled, a chunk whose RMS is below the
\* threshold and that is detached while no sentence is active sends nothing,
\* leaves the model caches and the sentence alone and only adds the chunk's
\* duration to audio_time; a SentenceBegin is sent only on a chunk whose RMS
\* reaches the threshold, and a TranscriptionResultChanged only after a
\* SentenceBegin, so that chunks below the threshold alone bring neither.
C25_QuietChunkDropped ==
    /\ [][AsrQuietIdleChunk
          => /\ asr_out' = asr_out
             /\ cacheVars' = cacheVars
             /\ audio_time' = audio_time
                     + chunk_duration_ms(selected_chunk_size,
                                         transcription_params.sample_rate)
             /\ UNCHANGED <<sentence_index, sentence_active, sentence_start_time,
                            last_sentence_text, sentence_texts, sentence_texts_raw,
                            empty_result_count, asr_shown, asr_final, asr_errs>>]_vars
    /\ [][cfg.ASR_ENABLE_NEARFIELD_FILTER /\ AsrSentenceBeginSent
          => filter_rms' >= ASR_NEARFIELD_RMS_THRESHOLD]_vars
    /\ [](\A i \in Positions(asr_out, "TranscriptionResultChanged") :
             \E j \in Positions(asr_out, "SentenceBegin") : j < i)

\* two chunks below the threshold were dropped, nothing but
\* TranscriptionStarted was sent
C25_Witness ==
    /\ cfg.ASR_ENABLE_NEARFIELD_FILTER
    /\ filter_rms = 7
    /\ transcription_params # None
    /\ audio_time = 2 * chunk_duration_ms(ChunkSmall, transcription_params.sample_rate)
    /\ Len(asr_out) = 1
    /\ audio_cache = "empty"
    /\ asr_pc = "recv"

\* a step of the chunk loop that detaches a chunk
AsrChunkStep == asr_pc = "chunks" /\ audio_buffer' # audio_buffer

\* a step that sends a SentenceEnd
AsrSentenceEndSent ==
    Positions(asr_out', "SentenceEnd") # Positions(asr_out, "SentenceEnd")

\* C26: a step of the chunk loop sends a SentenceEnd only if a sentence is
\* active and either the empty results in a row, this chunk included, have
\* reached max(3, (max_sentence_silence * 2) \div 600) or a silence frame was
\* detected on this chunk, which then lasts at least 400 ms; a step that takes
\* a new non-empty partial, whatever mark it ends with, sets the count of
\* empty results to 0, sends no SentenceEnd and leaves the sentence active.
C26_SentenceEndCauses ==
    /\ [][AsrChunkStep /\ AsrSentenceEndSent
          => /\ sentence_active
             /\ \/ empty_result_count + 1 >= max_empty_count(transcription_params)
                \/ /\ silence_frame'
                   /\ chunk_duration_ms(selected_chunk_size,
                                        transcription_params.sample_rate) >= 400]_vars
    /\ [][AsrChunkStep /\ last_sentence_text' # last_sentence_text
                       /\ last_sentence_text' # <<>>
          => /\ empty_result_count' = 0
             /\ ~AsrSentenceEndSent
             /\ sentence_active']_vars

\* a sentence was ended by the count of empty results: with the filter on no
\* chunk that reaches the model is a silence frame, and no Stop was received
C26_Witness ==
    /\ cfg.ASR_ENABLE_NEARFIELD_FILTER
    /\ asr_state = "STARTED"
    /\ Positions(asr_out, "SentenceEnd") # {}
    /\ ~silence_frame
    /\ ~sentence_active

\* C27: a session is Started, and has got its TranscriptionStarted, only with a
\* sample rate of supported_rates: a StartTranscription with another rate is
\* answered with TaskFailed and leaves the session Ready.
C27_UnsupportedRateRejected ==
    (asr_state # "READY" \/ Positions(asr_out, "TranscriptionStarted") # {})
    => transcription_params.sample_rate \in supported_rates

(***************************************************************************)
(* TTS WebSocket session: order of the control messages and of the audio.   *)
(***************************************************************************)
\* the answers that show an accepted control message: SynthesisStarted for
\* StartSynthesis, SentenceBegin for RunSynthesis, SynthesisCompleted for
\* StopSynthesis
TtsAccepted ==
    SelectSeq(tts_out, LAMBDA m : m.name \in {"SynthesisStarted", "SentenceBegin",
                                              "SynthesisCompleted"})

\* the accepted control messages are one Start, then runs only, then one Stop;
\* SynthesisCompleted is sent once and is the last frame sent
StartRunsStop(min_runs) ==
    /\ Count(tts_out, "SynthesisCompleted") <= 1
    /\ Count(tts_out, "SynthesisCompleted") = 1
       => /\ Len(TtsAccepted) >= 2 + min_runs
          /\ TtsAccepted[1].name = "SynthesisStarted"
          /\ TtsAccepted[Len(TtsAccepted)].name = "SynthesisCompleted"
          /\ \A i \in 2..(Len(TtsAccepted) - 1) : TtsAccepted[i].name = "SentenceBegin"
          /\ tts_out[Len(tts_out)].name = "SynthesisCompleted"

\* C17 as stated: a session that ends with SynthesisCompleted accepted one
\* StartSynthesis, then one or more RunSynthesis, then one StopSynthesis;
\* SynthesisCompleted is sent at most once and nothing is sent after it.
C17_StartRunPlusStop == StartRunsStop(1)

\* C17 amended: a session that ends with SynthesisCompleted accepted one
\* StartSynthesis, then zero or more RunSynthesis, then one StopSynthesis;
\* SynthesisCompleted is sent at most once and nothing is sent after it.
C17_StartRunStarStop == StartRunsStop(0)

\* a completed session with two accepted runs
C17_Witness ==
    /\ tts_state = "COMPLETED"
    /\ Count(tts_out, "SentenceBegin") = 2
    /\ Count(tts_out, "SynthesisCompleted") = 1

\* the frames other than audio and its SentenceSynthesis progress message
TtsMarksBefore(i) ==
    {j \in 1..(i - 1) : tts_out[j].name \notin {"audio", "SentenceSynthesis"}}

\* C18: every audio frame follows the SentenceBegin of the run in progress with
\* no SentenceEnd, TaskFailed, SynthesisStarted or SynthesisCompleted between
\* them: the last frame before it that is not audio (or audio progress) is a
\* SentenceBegin.
C18_AudioInsideRun ==
    \A i \in Positions(tts_out, "audio") :
        /\ TtsMarksBefore(i) # {}
        /\ tts_out[CHOOSE j \in TtsMarksBefore(i) :
                      \A k \in TtsMarksBefore(i) : k <= j].name = "SentenceBegin"

\* two runs, each with an audio frame, the first one ended by its SentenceEnd
C18_Witness ==
    \E i, j, k, l \in 1..Len(tts_out) :
        /\ i < j /\ j < k /\ k < l
        /\ tts_out[i].name = "audio"
        /\ tts_out[j].name = "SentenceEnd"
        /\ tts_out[k].name = "SentenceBegin"
        /\ tts_out[l].name = "audio"

(***************************************************************************)
(* Async TTS: properties.                                                   *)
(***************************************************************************)
Terminal == {"SUCCESS", "FAILED"}

\* C12: the status of a task only moves RUNNING -> SUCCESS or RUNNING -> FAILED:
\* a status that is SUCCESS or FAILED never changes in any step.
C12_TerminalStatusStable ==
    [][\A t \in Tasks :
          task_rows[t].status \in Terminal
          => task_rows'[t].status = task_rows[t].status]_vars

\* C13: an update issued for a task whose row is already SUCCESS or FAILED is
\* rejected: the step of a worker that issues it leaves the whole row
\* (status, error_code, error_message) as it was.
C13_TerminalUpdateRejected ==
    [][\A p \in Processes :
          (/\ w_pc[p] \in {"task", "except"}
           /\ w_pc'[p] \notin {w_pc[p], "except"} \/ pending_tasks'[p] # pending_tasks[p]
           /\ task_rows[CurrentTask(p)].status \in Terminal)
          => task_rows'[CurrentTask(p)] = task_rows[CurrentTask(p)]]_vars

C15_AtMostOnePost ==
    \A t \in Tasks : posts[t] <= 1

C19_GeneratorCancelled ==
    /\ [][gen_cons = "closed" => gen_sent' = gen_sent]_vars
    /\ [](gen_cons = "closed" => gen_made <= gen_closed_at + 1)

\* C22: the consumer gets the items in the order they were yielded, none lost
\* or doubled; a stream read to its end gave all n items and then the end of
\* the stream if the blocking generator returned, the exception if it raised;
\* after the end or the exception nothing more is delivered.
C22_ItemsThenEndOrError ==
    /\ [](/\ gen_got = [i \in 1..Len(gen_got) |-> i]
          /\ Len(gen_got) <= gen_made
          /\ gen_cons = "done" => (Len(gen_got) = gen_made /\ ~gen_raised)
          /\ gen_cons = "raised" => (Len(gen_got) = gen_made /\ gen_raised))
    /\ [][(gen_cons = "done" \/ gen_cons = "raised")
          => (gen_cons' = gen_cons /\ gen_got' = gen_got)]_vars

\* the blocking generator yielded two items and raised; the consumer got the
\* two items and then the exception
C22_Witness ==
    /\ gen_cons = "raised"
    /\ gen_made = 2
    /\ gen_got = <<1, 2>>
(***************************************************************************)
(* Async TTS: the success callback beside the response to GET.              *)
(***************************************************************************)
\* C28: for a task whose success callback was POSTed and whose row is SUCCESS,
\* the body of that callback equals the body a GET returns for the task:
\* status, error_code, error_message, request_id and the data fields
\* task_id, audio_address, notify_custom and sentences.
C28_CallbackEqualsGet ==
    \A t \in Tasks :
        (callbacks[t] # NoBody /\ task_rows[t].status = "SUCCESS")
        => \A r \in GetRequestIds(t) :
              get_async_tts_result(task_rows, t, r) = callbacks[t]

(***************************************************************************)
(* Async TTS: reaping of old rows.                                          *)
(***************************************************************************)
\* C29: every row that cleanup_old_tasks has deleted was SUCCESS or FAILED and
\* had been created more than 7 days (168 hours) before; no RUNNING row is
\* deleted.
C29_ReapsOnlyOldTerminal ==
    \A t \in Tasks :
        reaped[t] # NotReaped
        => /\ reaped[t].status \in {"SUCCESS", "FAILED"}
           /\ reaped[t].age > cleanup_days * 24

(***************************************************************************)
(* Async TTS: the worker thread of a process.                               *)
(***************************************************************************)
\* C30: in every process at most one worker thread is started, however many
\* submit requests the process serves.
C30_AtMostOneWorker == \A p \in Processes : worker_threads[p] <= 1

\* a process has served two submit requests and runs its worker
C30_Witness ==
    \E p \in Processes :
        /\ worker_threads[p] = 1
        /\ task_count = 2
        /\ \A q \in Processes \ {p} : worker_threads[q] = 0

(***************************************************************************)
(* WebSocket connections: the check of the token.                           *)
(***************************************************************************)
TokenMissing == ws_handshake.APPTOKEN /\ ws_handshake.x_nls_token = ""

\* C31: with APPTOKEN configured, a connection without X-NLS-Token is sent
\* one TaskFailed frame that names the missing token and nothing else, the
\* handler returns (the endpoint closes the socket) without receiving any
\* client message, and no SynthesisStarted is ever sent.
C31_MissingTokenRefused ==
    TokenMissing =>
        /\ tts_pc \in {"auth", "closed"}
        /\ tts_in = 0
        /\ Count(tts_out, "SynthesisStarted") = 0
        /\ tts_out \in {<<>>, <<Msg("TaskFailed", 0, "token missing")>>}
        /\ (tts_pc = "closed" /\ tts_ws = "CONNECTED")
              => tts_out = <<Msg("TaskFailed", 0, "token missing")>>

\* a connection without token has been refused and closed
C31_Witness ==
    /\ TokenMissing
    /\ tts_pc = "closed"
    /\ tts_out = <<Msg("TaskFailed", 0, "token missing")>>

(***************************************************************************)
(* HTTP endpoints: the HTTP status of typed errors.                         *)
(***************************************************************************)
\* C32: every error response whose status code is client-origin (4xxxxxxx)
\* has HTTP status 400, and every one whose status code is server-origin
\* (5xxxxxxx) has HTTP status 500.
C32_HttpStatusByOrigin ==
    \A i \in 1..Len(http_out) :
        /\ http_out[i].status \div 10000000 = 4 => http_out[i].http = 400
        /\ http_out[i].status \div 10000000 = 5 => http_out[i].http = 500


\* C33: a call of _select_engine returns the lowest index among the replicas
\* whose active count is minimal and adds exactly 1 to that replica's count;
\* every other count is unchanged.  The call runs under the pool's lock, as
\* does _release_engine, so it is one step.
C33_SelectLowestLeastLoaded ==
    [][(pool_calls' = pool_calls + 1 /\ pool_last'.op = "select") =>
        LET i == pool_last'.index
        IN /\ i \in Engines
           /\ \A j \in Engines : engine_active_count[i] <= engine_active_count[j]
           /\ \A j \in Engines :
                 j < i => engine_active_count[j] > engine_active_count[i]
           /\ engine_active_count'[i] = engine_active_count[i] + 1
           /\ \A j \in Engines \ {i} :
                 engine_active_count'[j] = engine_active_count[j]]_vars

\* C33 witness: a select among equally loaded busy replicas took replica 0,
\* which now has one request more than replica 1.
C33_Witness ==
    /\ pool_last.op = "select"
    /\ pool_last.index = 0
    /\ pool_last.before = 1
    /\ engine_active_count[0] = 2
    /\ engine_active_count[1] = 1

\* C34: once the consumer of run_sync_generator has left the stream (it was
\* cancelled or stopped iterating), the producer thread stops at its next
\* yield: after the one item it was working on it yields nothing more.
C34_ProducerStopsAtNextYield ==
    [][(gen_cons = "closed" /\ gen_made > gen_closed_at) => gen_made' = gen_made]_vars

\* the items of the stream that wait in the queue
Unconsumed(q) == Cardinality({i \in 1..Len(q) : q[i].kind = "item"})

\* C35: the queue between the producer thread and the consumer has a fixed
\* capacity at which the producer blocks: however slow the consumer, the
\* queue never holds a whole stream of MaxItems items.
C35_QueueBounded ==
    Unconsumed(queue) < MaxItems

\* a step of the chunk loop whose chunk the nearfield gate rejects while a
\* sentence is active: its RMS is below 0.6 times the threshold
AsrGatedActiveChunk ==
    /\ AsrChunkStep
    /\ sentence_active
    /\ cfg.ASR_ENABLE_NEARFIELD_FILTER
    /\ filter_rms' * 10 < ASR_NEARFIELD_RMS_THRESHOLD * 6

DetachedSamples == SamplesLen(audio_buffer) - SamplesLen(audio_buffer')

\* C37: each chunk detached has the largest standard size (9600, else 3840
\* samples) that does not exceed the length of the buffer it is taken from,
\* so every chunk has exactly 3840 or 9600 samples; and a session in which
\* nothing failed waits for the next frame only with a buffer shorter than
\* 3840 samples.
C37_LargestStandardChunk ==
    /\ [][AsrChunkStep
          => /\ DetachedSamples = SelectChunkSize(SamplesLen(audio_buffer))
             /\ DetachedSamples \in {ChunkSmall, ChunkLarge}]_vars
    /\ []((asr_pc = "recv" /\ asr_state = "STARTED" /\ asr_errs = 0)
           => SamplesLen(audio_buffer) < ChunkSmall)

SamplesReceived ==
    IF asr_next_sample = 0 THEN <<>> ELSE <<<<0, asr_next_sample - 1>>>>

\* C40: in a session that is Started, the samples of the chunks detached so
\* far, in the order of detachment, followed by the samples in the buffer are
\* exactly the samples received so far in arrival order.
C40_SamplesConserved ==
    asr_state = "STARTED" => Concat(asr_detached, audio_buffer) = SamplesReceived

\* C40 witness: two frames were received; three chunks have been detached and
\* the rest of the second frame is in the buffer.
C40_Witness ==
    /\ asr_state = "STARTED"
    /\ asr_next_sample = 9600 + 7680
    /\ asr_detached = <<<<0, 9600 + 3840 - 1>>>>
    /\ audio_buffer = <<<<9600 + 3840, 9600 + 7680 - 1>>>>

\* C39: whatever the interleaving of the callers, each global singleton is
\* constructed at most once and every caller that was given an instance by a
\* getter was given the same one, the one the global holds.
C39_SingletonsOnce ==
    \A g \in Getters :
        /\ singleton[g].made <= 1
        /\ \A t \in Callers :
              getter_call[t].got[g] \in {0, singleton[g].instance}

\* C39 witness: the offline punctuation model was first used by both callers
\* at once: one caller is returning from the getter with the instance it
\* constructed while the other already holds the lock and finds the instance;
\* and the executor was created by a caller that got it.
C39_Witness ==
    /\ getter_call[1].pc = "return"
    /\ getter_call[1].getter = "get_global_punc_model"
    /\ getter_call[2].pc = "return"
    /\ getter_call[2].getter = "get_global_punc_model"
    /\ singleton["get_global_punc_model"].made = 1
    /\ singleton["get_executor"].made = 1
    /\ getter_call[2].got["get_executor"] = 1
====
